---- MODULE Spec2Model ----
(***************************************************************************)
(* Model of the translation pipeline of react-vite-translator-deploy:      *)
(*   - the chunked translation job of src/lib/gemini.ts                    *)
(*     (translateLongDocument, translateChunk, fetchGeminiWithRetry),      *)
(*   - the chunker splitTextIntoChunks of src/lib/gemini.ts,               *)
(*   - the TRADOS formatter of src/lib/tradosFormatter.ts: paragraphs,     *)
(*     cleaner and the numbers of the style sheet,                         *)
(*   - handleTranslate and autoExtractAndSaveTerms of                      *)
(*     src/components/TranslatorInterface.tsx, with the un-chunked path    *)
(*     of translateWithGemini,                                             *)
(*   - the formatting-rule store (FormattingRulesManager.tsx) and the      *)
(*     terminology store (TerminologyManager.tsx, src/lib/tmxParser.ts)    *)
(*     over the tables of the migration, with the export and import of   *)
(*     rule sets,                                                          *)
(*   - the sequential translateLongDocument of src/lib/longTranslation.ts  *)
(*     and its splitTextIntoChunks.                                        *)
(* Each specification runs one part and leaves the others idle.            *)
(* Strings are sequences of one-character strings, so that length, trim,   *)
(* split and join are computed as the code computes them.                  *)
(***************************************************************************)
EXTENDS Integers, Sequences, FiniteSets, TLC

VARIABLES
    \* ---- chunked translation job (gemini.ts, translateLongDocument) ----
    chunks,         \* string[]: the chunks of the job (also the chunker's return value)
    results,        \* results[i]: slot i of `results` (def = FALSE: never assigned)
    chunkPromises,  \* the promises held in `chunkPromises`, named by chunk index
    activeWorkers,  \* the counter activeWorkers
    loopI,          \* the dispatch loop's variable i
    jobPc,          \* position of translateLongDocument
    awaited,        \* the promises captured by the pending Promise.race / Promise.all
    worker,         \* worker[i]: position of translateChunk(i, chunks[i])
    requests,       \* requests[i]: provider requests (fetch calls) issued so far by the
                    \* running translateChunk(i); 0 before it starts and once it returned
    writes,         \* writes[i]: number of assignments to results[i]
    output,         \* the string translateLongDocument resolves with
    outOfOrder,     \* history: a chunk finished while a chunk of lower index had not
    \* ---- chunker (gemini.ts, splitTextIntoChunks) ----
    text,           \* argument text
    maxChars,       \* argument maxChars
    splitPc,        \* "idle" | "called" | "returned"
    \* ---- formatter (tradosFormatter.ts) ----
    raw,            \* argument raw / text
    rules,          \* the toggles of TradosRules the formatter reads
    fmtPc,          \* "idle" | "called" | "html" | "continuous" | "cleaned" | "recleaned"
    paragraphs,     \* the <p> elements produced, in order
    cleanOnce,      \* the value of cleanTextForTrados(raw, rules)
    cleanTwice,     \* the value of cleanTextForTrados(cleanOnce, rules)
    css,            \* the numbers formatToTradosHTML has written into <style>
    \* ---- the stores and their managers (supabase tables, components) ----
    activeTab,          \* App: the manager the clients have open
    formattingRules,    \* table formatting_rules: a set of rows
    nextRuleId,         \* the next id gen_random_uuid() gives to a formatting rule
    uiRules,            \* uiRules[c]: the state `rules` of FormattingRulesManager
    selectedRule,       \* selectedRule[c]: the state `selectedRule`
    ruleOp,             \* ruleOp[c]: the handler client c is running, and its position
    downloads,          \* the files handleExport has written
    terminology,        \* table terminology: a set of rows
    nextTermId,         \* the next id gen_random_uuid() gives to a terminology row
    termOp,             \* handleTMXImport of the session: position, file, entries, i;
                        \* conflict: the last write met unique_term_pair
    \* ---- TranslatorInterface.tsx: handleTranslate, and translateWithGemini ----
    apiKey,             \* geminiApiKey / the argument apiKey
    sourceText,         \* the state sourceText / the argument text
    long,               \* text.length > 5500
    hPc,                \* position of handleTranslate, "direct" for another caller
    single,             \* the un-chunked call: position, fetch attempt, requests, result
    isTranslating,      \* the state isTranslating
    translatedText,     \* the state translatedText
    translationMemory,  \* table translation_memory: its rows in insertion order
    newTerms,           \* autoExtractAndSaveTerms: the candidates not upserted yet
    phrases             \* the value of extractNounPhrases(sourceText)

dispatchVars == <<results, chunkPromises, activeWorkers, loopI, jobPc, awaited,
                  worker, requests, writes, output, outOfOrder>>
chunkerVars  == <<text, maxChars, splitPc>>
formatVars   == <<raw, rules, fmtPc, paragraphs, cleanOnce, cleanTwice, css>>
rulesVars    == <<formattingRules, nextRuleId, uiRules, selectedRule, ruleOp, downloads>>
termVars     == <<terminology, nextTermId, termOp>>
storeVars    == <<activeTab, rulesVars, termVars>>
translateVars == <<apiKey, sourceText, long, hPc, single, isTranslating, translatedText,
                   translationMemory, newTerms, phrases>>
vars == <<chunks, dispatchVars, chunkerVars, formatVars, storeVars, translateVars>>

(***************************************************************************)
(* Bounds of the model                                                     *)
(***************************************************************************)
MaxChunks == 4      \* a job has 0..MaxChunks chunks
MaxTextLen == 6     \* the chunker is given texts of 0..MaxTextLen characters
MaxLimit == 4       \* and maxChars in 1..MaxLimit
MaxLines == 3       \* the formatter is given texts of 1..MaxLines lines
MaxRun == 40        \* the cleaner is given runs of 0..MaxRun consecutive spaces
MaxRules == 2       \* at most MaxRules formatting rules are ever created

(***************************************************************************)
(* String helpers                                                          *)
(***************************************************************************)
Range(s) == {s[k] : k \in 1..Len(s)}

\* String.prototype.trim: the white space of the model's alphabet
IsSpace(c) == c \in {" ", "\n", "\r", "\t"}

RECURSIVE trimStart(_)
trimStart(s) ==
    IF s = <<>> THEN <<>>
    ELSE IF IsSpace(Head(s)) THEN trimStart(Tail(s)) ELSE s

RECURSIVE trimEnd(_)
trimEnd(s) ==
    IF s = <<>> THEN <<>>
    ELSE IF IsSpace(s[Len(s)]) THEN trimEnd(SubSeq(s, 1, Len(s) - 1)) ELSE s

trim(s) == trimEnd(trimStart(s))

\* s.replace(/\s+/g, " ")
RECURSIVE CollapseSpace(_)
CollapseSpace(s) ==
    IF s = <<>> THEN <<>>
    ELSE IF IsSpace(Head(s)) THEN <<" ">> \o CollapseSpace(trimStart(s))
    ELSE <<Head(s)>> \o CollapseSpace(Tail(s))

\* Array.prototype.join
RECURSIVE join(_, _)
join(arr, sep) ==
    IF arr = <<>> THEN <<>>
    ELSE IF Len(arr) = 1 THEN arr[1]
    ELSE arr[1] \o sep \o join(Tail(arr), sep)

\* decimal rendering of a number inside a template literal
DigitChars == <<"0", "1", "2", "3", "4", "5", "6", "7", "8", "9">>
RECURSIVE NumStr(_)
NumStr(n) ==
    IF n < 10 THEN <<DigitChars[n + 1]>>
    ELSE NumStr(n \div 10) \o <<DigitChars[(n % 10) + 1]>>

(***************************************************************************)
(* gemini.ts: constants                                                    *)
(***************************************************************************)
MAX_CONCURRENCY == 3
ChunkAttempts == 3      \* for (let attempt = 1; attempt <= 3; attempt++)
FetchAttempts == 4      \* for (let attempt = 1; attempt <= 4; attempt++)

(***************************************************************************)
(* gemini.ts: the external provider, seen from fetchGeminiWithRetry        *)
(***************************************************************************)
N == Len(chunks)
Idx == 0 .. (N - 1)
Chunk(i) == chunks[i + 1]       \* chunks[i], 0-based as in the source

\* The texts a 200-response may carry for a chunk: no candidate text, white
\* space only, a translation, a translation surrounded by white space.
ProviderTranslation(chunk) == <<"T", ":">> \o chunk
ProviderTexts(chunk) ==
    { <<>>, <<" ">>, ProviderTranslation(chunk),
      <<" ">> \o ProviderTranslation(chunk) \o <<"\n">> }

\* What one fetch can come back with.
Responses(chunk) ==
    { [kind |-> "ok", text |-> t] : t \in ProviderTexts(chunk) }
    \cup { [kind |-> k, text |-> <<>>] : k \in {"429", "5xx", "other", "network"} }

(***************************************************************************)
(* gemini.ts: fetchGeminiWithRetry / translateWithGemini (chunk call)      *)
(***************************************************************************)
\* if (text?.trim()) return text;
HasTextAlways(t) == TRUE
HasText(t) == trim(t) # <<>>

\* the for loop of fetchGeminiWithRetry is over: attempt <= 4 fails next
FetchExhaustedSlow(fetchAttempt) == fetchAttempt >= FetchAttempts + 1
FetchExhausted(fetchAttempt) == fetchAttempt >= FetchAttempts

\* the for loop of translateChunk is over: attempt <= 3 fails next
ChunkExhausted(attempt) == attempt >= ChunkAttempts

(***************************************************************************)
(* gemini.ts: translateChunk                                               *)
(***************************************************************************)
\* `[ERROR in chunk ${i + 1}] ${chunk}`
Placeholder(i, chunk) ==
    <<"[", "E", "R", "R", "O", "R", " ", "i", "n", " ", "c", "h", "u", "n", "k", " ">>
    \o NumStr(i + 1) \o <<"]", " ">> \o chunk

\* results[i] = value, on the array as it is
StoreAtCompletion(res, i, value) ==
    LET free == {k \in DOMAIN res : ~res[k].def}
        slot == IF free = {} THEN i ELSE CHOOSE k \in free : \A m \in free : k <= m
    IN  [res EXCEPT ![slot] = [def |-> TRUE, str |-> value]]
StoreResult(res, i, value) == [res EXCEPT ![i] = [def |-> TRUE, str |-> value]]

\* How translateChunk ends once the attempts are used up (lines 113-115):
\* the placeholder is stored and the promise is fulfilled.
FinalFailureThrows(i, chunk) == [settle |-> "rejected", store |-> FALSE, str |-> <<>>]
FinalFailure(i, chunk) ==
    [settle |-> "fulfilled", store |-> TRUE, str |-> Placeholder(i, chunk)]

NotStarted == [pc |-> "idle", attempt |-> 0, fetchAttempt |-> 0, settle |-> "none"]
\* translateChunk runs synchronously up to its first fetch
FirstFetch == [pc |-> "fetch", attempt |-> 1, fetchAttempt |-> 1, settle |-> "none"]

(***************************************************************************)
(* gemini.ts: translateLongDocument, the dispatch loop (lines 119-141).    *)
(* RunLoop runs the loop from its current position to its next await.      *)
(***************************************************************************)
\* if (activeWorkers >= MAX_CONCURRENCY)
SlotBusyAlways(active) == TRUE
SlotBusyOffByOne(active) == active > MAX_CONCURRENCY
SlotBusy(active) == active >= MAX_CONCURRENCY

RECURSIVE RunLoop(_, _)
RunLoop(s, resumed) ==
    IF s.loopI >= N
    THEN [s EXCEPT !.jobPc = "all", !.awaited = Range(s.chunkPromises)]
    ELSE IF ~resumed /\ SlotBusy(s.activeWorkers)
    THEN [s EXCEPT !.jobPc = "race", !.awaited = Range(s.chunkPromises)]
    ELSE RunLoop([s EXCEPT !.activeWorkers = @ + 1,
                           !.worker[s.loopI] = FirstFetch,
                           !.requests[s.loopI] = 1,
                           !.chunkPromises = Append(@, s.loopI),
                           !.loopI = @ + 1], FALSE)

\* results.filter(Boolean): undefined slots and empty strings are dropped
RECURSIVE filterBoolean(_, _)
filterBoolean(res, k) ==
    IF k >= N THEN <<>>
    ELSE IF res[k].def /\ res[k].str # <<>>
         THEN <<res[k].str>> \o filterBoolean(res, k + 1)
         ELSE filterBoolean(res, k + 1)

ParagraphJoiner == <<"\n", "\n">>

\* splice(indexOf(promise), 1)
RemovePromise(ps, p) ==
    IF p \in Range(ps)
    THEN LET at == CHOOSE k \in 1..Len(ps) : ps[k] = p /\ \A m \in 1..(k - 1) : ps[m] # p
         IN  SubSeq(ps, 1, at - 1) \o SubSeq(ps, at + 1, Len(ps))
    ELSE ps

(***************************************************************************)
(* gemini.ts: splitTextIntoChunks (lines 213-256)                          *)
(***************************************************************************)
\* text.split(/\n{2,}|\r\n/): cur is the piece being read
RECURSIVE DropNewlines(_)
DropNewlines(s) ==
    IF s # <<>> /\ Head(s) = "\n" THEN DropNewlines(Tail(s)) ELSE s

RECURSIVE SplitParagraphs(_, _)
SplitParagraphs(s, cur) ==
    IF s = <<>> THEN <<cur>>
    ELSE IF Len(s) >= 2 /\ s[1] = "\n" /\ s[2] = "\n"
    THEN <<cur>> \o SplitParagraphs(DropNewlines(s), <<>>)
    ELSE IF Len(s) >= 2 /\ s[1] = "\r" /\ s[2] = "\n"
    THEN <<cur>> \o SplitParagraphs(SubSeq(s, 3, Len(s)), <<>>)
    ELSE SplitParagraphs(Tail(s), Append(cur, Head(s)))

\* the class [.?!;]
IsPunct(c) == c \in {".", "?", "!", ";"}

RECURSIVE PunctRun(_)
PunctRun(s) ==
    IF s # <<>> /\ IsPunct(Head(s)) THEN <<Head(s)>> \o PunctRun(Tail(s)) ELSE <<>>

\* p.split(/([.?!;]+)/): the pieces and, between them, the captured runs
RECURSIVE SplitSentences(_, _)
SplitSentences(s, cur) ==
    IF s = <<>> THEN <<cur>>
    ELSE IF IsPunct(Head(s))
    THEN LET run == PunctRun(s)
         IN  <<cur, run>> \o SplitSentences(SubSeq(s, Len(run) + 1, Len(s)), <<>>)
    ELSE SplitSentences(Tail(s), Append(cur, Head(s)))

\* .filter(Boolean) on an array of strings
RECURSIVE filterNonEmpty(_)
filterNonEmpty(arr) ==
    IF arr = <<>> THEN <<>>
    ELSE IF Head(arr) # <<>> THEN <<Head(arr)>> \o filterNonEmpty(Tail(arr))
    ELSE filterNonEmpty(Tail(arr))

\* if (x.trim()) ...
NonBlankAlways(s) == TRUE
NonBlank(s) == trim(s) # <<>>

\* if (x.trim()) chunks.push(x.trim())
PushTrimmed(out, s) == IF NonBlank(s) THEN Append(out, trim(s)) ELSE out

\* the loop over the sentences of an oversized paragraph (lines 234-243);
\* i is 1-based here: sentences[i] is the source's sentences[i - 1]
RECURSIVE SubChunkLoop(_, _, _, _, _)
SubChunkLoop(sentences, i, subChunk, out, limit) ==
    IF i > Len(sentences) THEN PushTrimmed(out, subChunk)
    ELSE LET sentence == sentences[i] \o
                         (IF i + 1 <= Len(sentences) THEN sentences[i + 1] ELSE <<>>)
         IN  IF Len(subChunk \o <<" ">> \o sentence) > limit
             THEN SubChunkLoop(sentences, i + 2, sentence, PushTrimmed(out, subChunk), limit)
             ELSE SubChunkLoop(sentences, i + 2,
                               subChunk \o (IF subChunk # <<>> THEN <<" ">> ELSE <<>>) \o sentence,
                               out, limit)

\* the loop over the paragraphs (lines 222-252) and the final push (line 254)
RECURSIVE ParagraphLoop(_, _, _, _)
ParagraphLoop(ps, current, out, limit) ==
    IF ps = <<>> THEN PushTrimmed(out, current)
    ELSE LET p == Head(ps) IN
         IF Len(p) > limit
         THEN ParagraphLoop(Tail(ps), <<>>,
                            SubChunkLoop(filterNonEmpty(SplitSentences(p, <<>>)), 1, <<>>,
                                         PushTrimmed(out, current), limit),
                            limit)
         ELSE IF Len(current \o <<"\n", "\n">> \o p) > limit
         THEN ParagraphLoop(Tail(ps), p, PushTrimmed(out, current), limit)
         ELSE ParagraphLoop(Tail(ps),
                            current \o (IF current # <<>> THEN <<"\n", "\n">> ELSE <<>>) \o p,
                            out, limit)

splitTextIntoChunks(t, limit) == ParagraphLoop(SplitParagraphs(t, <<>>), <<>>, <<>>, limit)

(***************************************************************************)
(* tradosFormatter.ts.  Characters outside ASCII are named: "EMDASH" is    *)
(* U+2014, "SHY" the soft hyphen U+00AD, "CYR" and "GRK" stand for a       *)
(* letter of the ranges \u0410-\u044F and \u03B1-\u03C9 of the regexes.    *)
(***************************************************************************)
Digits == {"0", "1", "2", "3", "4", "5", "6", "7", "8", "9"}
LatinLetters ==
    {"a", "b", "c", "d", "e", "f", "g", "h", "i", "j", "k", "l", "m",
     "n", "o", "p", "q", "r", "s", "t", "u", "v", "w", "x", "y", "z",
     "A", "B", "C", "D", "E", "F", "G", "H", "I", "J", "K", "L", "M",
     "N", "O", "P", "Q", "R", "S", "T", "U", "V", "W", "X", "Y", "Z"}
\* the class [A-Za-z\u0410-\u042F\u0430-\u044F\u03B1-\u03C9] with flag i
IsLetter(c) == c \in LatinLetters \cup {"CYR", "GRK"}
IsDigit(c) == c \in Digits
\* \w, for \b
IsWordChar(c) == c \in LatinLetters \cup Digits \cup {"_"}

\* out.replace(/\u00AD/g, "")
RemoveSoftHyphens(s) == SelectSeq(s, LAMBDA c : c # "SHY")

\* out.replace(/ {n}/g, " "): left to right, matches do not overlap
RECURSIVE ReplaceSpaceRun(_, _)
ReplaceSpaceRun(s, n) ==
    IF s = <<>> THEN <<>>
    ELSE IF Len(s) >= n /\ \A k \in 1..n : s[k] = " "
    THEN <<" ">> \o ReplaceSpaceRun(SubSeq(s, n + 1, Len(s)), n)
    ELSE <<Head(s)>> \o ReplaceSpaceRun(Tail(s), n)

\* cleanTextForTrados (lines 23-38)
cleanTextForTrados(t, r) ==
    LET noShy == IF r.removeOptionalHyphens THEN RemoveSoftHyphens(t) ELSE t
        spaced == IF r.removeMultipleSpaces
                  THEN ReplaceSpaceRun(ReplaceSpaceRun(ReplaceSpaceRun(
                           ReplaceSpaceRun(noShy, 5), 4), 3), 2)
                  ELSE noShy
    IN  trim(spaced)

\* escapeHtml (lines 316-320): textContent read back as innerHTML
EscapeChar(c) ==
    IF c = "&" THEN <<"&", "a", "m", "p", ";">>
    ELSE IF c = "<" THEN <<"&", "l", "t", ";">>
    ELSE IF c = ">" THEN <<"&", "g", "t", ";">>
    ELSE <<c>>

RECURSIVE escapeHtml(_)
escapeHtml(t) == IF t = <<>> THEN <<>> ELSE EscapeChar(Head(t)) \o escapeHtml(Tail(t))

\* `<p class="${cls}">${escapeHtml(t)}</p>`
P(cls, t) == [cls |-> cls, html |-> escapeHtml(t)]

\* text.split("\n")
RECURSIVE SplitLines(_, _)
SplitLines(s, cur) ==
    IF s = <<>> THEN <<cur>>
    ELSE IF Head(s) = "\n" THEN <<cur>> \o SplitLines(Tail(s), <<>>)
    ELSE SplitLines(Tail(s), Append(cur, Head(s)))

RECURSIVE MapTrim(_)
MapTrim(arr) == IF arr = <<>> THEN <<>> ELSE <<trim(Head(arr))>> \o MapTrim(Tail(arr))

\* .split("\n").map((l) => l.trim()).filter((l) => l.length > 0)
NonEmptyLines(t) == filterNonEmpty(MapTrim(SplitLines(t, <<>>)))

\* length of the match of \d* at the start of s
RECURSIVE DigitPrefixLen(_)
DigitPrefixLen(s) ==
    IF s # <<>> /\ IsDigit(Head(s)) THEN 1 + DigitPrefixLen(Tail(s)) ELSE 0

\* length of the match of /^\(\d+\)/ at the start of s, 0 without a match
ParenDigitsLen(s) ==
    IF s # <<>> /\ Head(s) = "("
    THEN LET d == DigitPrefixLen(Tail(s))
         IN  IF d >= 1 /\ Len(s) >= d + 2 /\ s[d + 2] = ")" THEN d + 2 ELSE 0
    ELSE 0

\* length of the match of /^\d+\./
DigitsDotLen(s) ==
    LET d == DigitPrefixLen(s)
    IN  IF d >= 1 /\ Len(s) >= d + 1 /\ s[d + 1] = "." THEN d + 1 ELSE 0

\* length of the match of /^\([A-Za-z...]\)/i
ParenLetterLen(s) ==
    IF Len(s) >= 3 /\ s[1] = "(" /\ IsLetter(s[2]) /\ s[3] = ")" THEN 3 ELSE 0

\* length of the match of /^\u2014/
DashLen(s) == IF s # <<>> /\ Head(s) = "EMDASH" THEN 1 ELSE 0

\* s.replace(/^(marker)\s*/, "$1\t"), the marker being the first n characters
TabAfter(s, n) ==
    IF n = 0 THEN s
    ELSE SubSeq(s, 1, n) \o <<"\t">> \o trimStart(SubSeq(s, n + 1, Len(s)))

\* the four chained replace calls (lines 97-101 and 157-161)
InsertTabs(s) ==
    LET s1 == TabAfter(s, ParenDigitsLen(s))
        s2 == TabAfter(s1, DigitsDotLen(s1))
        s3 == TabAfter(s2, ParenLetterLen(s2))
    IN  TabAfter(s3, DashLen(s3))

\* /\b[A-Za-z...]+\s+\d+$/i.test(s): the text ends with digits, before them
\* white space, before it letters that begin at a word boundary
EndsWithWordNumber(s) ==
    \E a \in 1..Len(s) : \E b \in a..Len(s) : \E c \in (b + 1)..Len(s) :
        /\ c < Len(s)
        /\ \A k \in a..b : IsLetter(s[k])
        /\ \A k \in (b + 1)..c : IsSpace(s[k])
        /\ \A k \in (c + 1)..Len(s) : IsDigit(s[k])
        /\ (IF a = 1 THEN FALSE ELSE IsWordChar(s[a - 1])) # IsWordChar(s[a])

\* the classification chain (lines 105-117)
Classify(segment) ==
    IF DigitsDotLen(segment) > 0 THEN "article-point"
    ELSE IF ParenDigitsLen(segment) > 0 THEN "preamble-point"
    ELSE IF ParenLetterLen(segment) > 0 THEN "letter-point"
    ELSE IF DashLen(segment) > 0 THEN "bullet-point"
    ELSE IF segment # <<>> /\ segment[Len(segment)] = ":" THEN "section-header"
    ELSE IF EndsWithWordNumber(segment) THEN "article-title"
    ELSE "normal"

\* the title and subtitle paragraphs (lines 74-85 and 139-152)
HeadParagraphs(lines, r) ==
    (IF Len(lines) >= 1 THEN <<P("document-title", cleanTextForTrados(lines[1], r))>> ELSE <<>>)
    \o (IF Len(lines) >= 2 THEN <<P("document-subtitle", cleanTextForTrados(lines[2], r))>>
        ELSE <<>>)

\* one body line of parseContinuousLegalText (lines 88-119)
ClassifiedParagraph(line, r) ==
    LET cleaned == cleanTextForTrados(trim(line), r)
        segment == IF r.useTabsAfterManualNumbers THEN InsertTabs(cleaned) ELSE cleaned
    IN  P(Classify(segment), segment)

\* one body line of parseSimpleLegalText (lines 154-164)
NormalParagraph(line, r) ==
    LET cleaned == cleanTextForTrados(line, r)
        processed == IF r.useTabsAfterManualNumbers THEN InsertTabs(cleaned) ELSE cleaned
    IN  P("normal", processed)

\* for (let line of bodyLines) ... result.push(...)
RECURSIVE ClassifiedBody(_, _)
ClassifiedBody(lines, r) ==
    IF lines = <<>> THEN <<>>
    ELSE <<ClassifiedParagraph(Head(lines), r)>> \o ClassifiedBody(Tail(lines), r)

\* for (let line of body) ... result.push(...)
RECURSIVE NormalBody(_, _)
NormalBody(lines, r) ==
    IF lines = <<>> THEN <<>>
    ELSE <<NormalParagraph(Head(lines), r)>> \o NormalBody(Tail(lines), r)

\* parseContinuousLegalText (lines 41-124)
parseContinuousLegalText(t, r) ==
    LET normalizedText == CollapseSpace(t)        \* text.replace(/\s+/g, " ")
        lines == NonEmptyLines(normalizedText)
        bodyLines == filterNonEmpty(MapTrim(SubSeq(lines, 3, Len(lines))))
    IN  HeadParagraphs(lines, r) \o ClassifiedBody(bodyLines, r)

\* parseSimpleLegalText (lines 127-170)
parseSimpleLegalText(t, r) ==
    IF "\n" \in Range(t)
    THEN LET lines == NonEmptyLines(t)
         IN  HeadParagraphs(lines, r) \o NormalBody(SubSeq(lines, 3, Len(lines)), r)
    ELSE parseContinuousLegalText(t, r)

\* formatToTradosHTML (lines 173-313): the paragraphs of <body>
formatToTradosHTML(t, r) == parseSimpleLegalText(cleanTextForTrados(t, r), r)

(***************************************************************************)
(* Idle values of the three parts: a specification runs one part and       *)
(* leaves the others idle.                                                 *)
(***************************************************************************)
NoRules == [removeOptionalHyphens |-> FALSE, removeMultipleSpaces |-> FALSE,
            useTabsAfterManualNumbers |-> FALSE]

ChunkerIdle == text = <<>> /\ maxChars = 0 /\ splitPc = "idle"
FormatIdle  ==
    /\ raw = <<>> /\ rules = NoRules /\ fmtPc = "idle" /\ paragraphs = <<>>
    /\ cleanOnce = <<>> /\ cleanTwice = <<>> /\ css = <<>>
\* no client has a manager open
NoFile == [parses |-> FALSE, json |-> "none"]
NoRuleOp == [kind |-> "none", pc |-> "idle", id |-> 0, file |-> NoFile,
             solo |-> FALSE, prior |-> 0]
RulesIdle ==
    /\ formattingRules = {} /\ nextRuleId = 0 /\ uiRules = <<>> /\ selectedRule = <<>>
    /\ downloads = {}
    /\ ruleOp = <<>>
\* a TMX file; no import of this session is under way
NoTmx == [parses |-> FALSE, tus |-> <<>>]
NoTermOp == [pc |-> "idle", file |-> NoTmx, entries |-> <<>>, i |-> 0, conflict |-> FALSE]
TermsIdle == terminology = {} /\ nextTermId = 1 /\ termOp = NoTermOp
StoreIdle == activeTab = "translator" /\ RulesIdle /\ TermsIdle
\* translateWithGemini has not been called through its un-chunked path
NoSingle == [pc |-> "idle", fetchAttempt |-> 0, requests |-> 0, result |-> <<>>]
TranslateIdle ==
    /\ apiKey = <<>> /\ sourceText = <<>> /\ long = FALSE /\ hPc = "idle"
    /\ single = NoSingle /\ isTranslating = FALSE /\ translatedText = <<>>
    /\ translationMemory = <<>> /\ newTerms = <<>> /\ phrases = <<>>

DispatchIdle ==
    /\ results = <<>> /\ chunkPromises = <<>> /\ activeWorkers = 0 /\ loopI = 0
    /\ jobPc = "idle" /\ awaited = {} /\ worker = <<>> /\ requests = <<>>
    /\ writes = <<>> /\ output = <<>> /\ outOfOrder = FALSE

\* if (!apiKey) throw new Error("Gemini API key is required") (gemini.ts, line 26)
KeyCheckSkipped(key) == FALSE
KeyMissing(key) == key = <<>>

(***************************************************************************)
(* The chunked job: translateLongDocument after splitTextIntoChunks has    *)
(* returned (line 84), up to its return (line 146).                        *)
(***************************************************************************)
\* the chunks of a job: non-empty trimmed texts, chunk k reads "c<k>"
ChunkTexts(n) == [k \in 1..n |-> <<"c">> \o NumStr(k)]

DispatchInit ==
    /\ chunks \in {ChunkTexts(n) : n \in 0..MaxChunks}
    /\ results = [i \in Idx |-> [def |-> FALSE, str |-> <<>>]]   \* new Array(chunks.length)
    /\ chunkPromises = <<>>
    /\ activeWorkers = 0
    /\ loopI = 0
    /\ jobPc = "start"
    /\ awaited = {}
    /\ worker = [i \in Idx |-> NotStarted]
    /\ requests = [i \in Idx |-> 0]
    /\ writes = [i \in Idx |-> 0]
    /\ output = <<>>
    /\ outOfOrder = FALSE

\* the variables of the job as one record, and back
JobState ==
    [results |-> results, writes |-> writes, chunkPromises |-> chunkPromises,
     activeWorkers |-> activeWorkers, loopI |-> loopI, jobPc |-> jobPc,
     awaited |-> awaited, worker |-> worker, requests |-> requests, output |-> output,
     outOfOrder |-> outOfOrder]

SetJobState(s) ==
    /\ results' = s.results
    /\ writes' = s.writes
    /\ chunkPromises' = s.chunkPromises
    /\ activeWorkers' = s.activeWorkers
    /\ loopI' = s.loopI
    /\ jobPc' = s.jobPc
    /\ awaited' = s.awaited
    /\ worker' = s.worker
    /\ requests' = s.requests
    /\ output' = s.output
    /\ outOfOrder' = s.outOfOrder

\* counts the assignments that changed a slot of results
CountWrites(old, new, w) ==
    [k \in Idx |-> w[k] + (IF new[k] # old[k] THEN 1 ELSE 0)]

\* await Promise.all(chunkPromises) (line 141) settles once every captured
\* promise is fulfilled; then return results.filter(Boolean).join("\n\n")
AllSettle(s) ==
    IF s.jobPc = "all" /\ \A p \in s.awaited : s.worker[p].pc = "done"
    THEN [s EXCEPT !.jobPc = "resolved",
                   !.output = join(filterBoolean(s.results, 0), ParagraphJoiner)]
    ELSE s

\* the .finally callback of chunk i (lines 127-135)
FinallyKeepsPromise(s, i) ==
    [s EXCEPT !.activeWorkers = @ - 1, !.worker[i].pc = "done"]
Finally(s, i) ==
    [s EXCEPT !.activeWorkers = @ - 1,
              !.chunkPromises = RemovePromise(@, i),
              !.worker[i].pc = "done"]

\* what the settling of promise i wakes up in translateLongDocument: the
\* pending Promise.race (line 123), after which the loop dispatches chunk
\* loopI and runs on to its next await, or the pending Promise.all
AwaitResumeAtBarrier(s, i) ==
    IF s.jobPc \in {"race", "all"} /\ \A p \in s.awaited : s.worker[p].pc = "done"
    THEN IF s.jobPc = "race" THEN AllSettle(RunLoop(s, TRUE)) ELSE AllSettle(s)
    ELSE s
AwaitResume(s, i) ==
    IF s.jobPc \in {"race", "all"} /\ i \in s.awaited
    THEN IF s.worker[i].settle = "rejected"
         THEN [s EXCEPT !.jobPc = "rejected"]
         ELSE IF s.jobPc = "race" THEN AllSettle(RunLoop(s, TRUE))
         ELSE AllSettle(s)
    ELSE s

\* translateChunk(i) ends with f (a stored value and fulfilment, or a
\* rejection) and its locals are gone; the microtasks that follow run before any other fetch or
\* timer callback: the .finally callback, then the awaiting job
Settle(s, i, f) ==
    LET stored == IF f.store THEN StoreResult(s.results, i, f.str) ELSE s.results
        s1 == [s EXCEPT !.results = stored,
                        !.writes = CountWrites(s.results, stored, s.writes),
                        !.worker[i] = [pc |-> "settled", attempt |-> 0,
                                       fetchAttempt |-> 0, settle |-> f.settle],
                        !.requests[i] = 0,
                        !.outOfOrder = @ \/ \E j \in Idx : j < i /\ s.worker[j].pc # "done"]
    IN  AwaitResume(Finally(s1, i), i)

\* lines 87-141 up to the first await (Promise.race or Promise.all)
StartJob ==
    /\ jobPc = "start"
    /\ hPc \in {"awaitTranslate", "direct"} /\ ~KeyMissing(apiKey) /\ long
    /\ SetJobState(AllSettle(RunLoop(JobState, FALSE)))
    /\ UNCHANGED <<chunks, chunkerVars, formatVars, storeVars, translateVars>>

\* the next turn of the for loop of fetchGeminiWithRetry; when the loop is
\* over it returns null, translateWithGemini throws (line 68) and the catch
\* of translateChunk awaits its backoff timer (line 110)
NextFetchAttempt(s, i) ==
    IF FetchExhausted(s.worker[i].fetchAttempt)
    THEN [s EXCEPT !.worker[i].pc = "chunkBackoff"]
    ELSE [s EXCEPT !.worker[i].pc = "fetch",
                   !.worker[i].fetchAttempt = @ + 1,
                   !.requests[i] = @ + 1]

\* fetchGeminiWithRetry and its callers after a fetch of chunk i came back
\* with response r (lines 160-204, then 67-69 and 103-104)
AfterFetch(s, i, r) ==
    IF r.kind = "ok" /\ HasText(r.text)
    THEN \* fetchGeminiWithRetry returns text
         IF r.text # <<>>
         THEN \* return translated.trim(); results[i] = translatedChunk; return
              Settle(s, i, [settle |-> "fulfilled", store |-> TRUE, str |-> trim(r.text)])
         ELSE \* if (!translated) throw: caught by translateChunk
              [s EXCEPT !.worker[i].pc = "chunkBackoff"]
    ELSE IF r.kind = "ok"
    THEN \* empty response: the loop goes on without a wait
         NextFetchAttempt(s, i)
    ELSE \* 429, 5xx: await a timer, then continue; other status: the throw
         \* of line 190 is caught at line 198; network error: caught at
         \* line 198; both await a timer
         [s EXCEPT !.worker[i].pc = "fetchBackoff"]

\* a fetch of chunk i comes back
FetchReturns(i) ==
    /\ i \in Idx
    /\ worker[i].pc = "fetch"
    /\ \E r \in Responses(Chunk(i)) : SetJobState(AfterFetch(JobState, i, r))
    /\ UNCHANGED <<chunks, chunkerVars, formatVars, storeVars, translateVars>>

\* a backoff timer of fetchGeminiWithRetry fires (lines 179, 186, 203)
FetchBackoffDone(i) ==
    /\ i \in Idx
    /\ worker[i].pc = "fetchBackoff"
    /\ SetJobState(NextFetchAttempt(JobState, i))
    /\ UNCHANGED <<chunks, chunkerVars, formatVars, storeVars, translateVars>>

\* translateChunk after its backoff timer fired (line 110): the next
\* attempt, or the final failure handling (lines 113-115)
AfterChunkBackoff(s, i) ==
    IF ChunkExhausted(s.worker[i].attempt)
    THEN Settle(s, i, FinalFailure(i, Chunk(i)))
    ELSE [s EXCEPT !.worker[i].pc = "fetch",
                   !.worker[i].attempt = @ + 1,
                   !.worker[i].fetchAttempt = 1,
                   !.requests[i] = @ + 1]

ChunkBackoffDone(i) ==
    /\ i \in Idx
    /\ worker[i].pc = "chunkBackoff"
    /\ SetJobState(AfterChunkBackoff(JobState, i))
    /\ UNCHANGED <<chunks, chunkerVars, formatVars, storeVars, translateVars>>

(***************************************************************************)
(* TranslatorInterface.tsx: auto term extraction (lines 148-218)           *)
(***************************************************************************)
\* the flag i of the stop-word regex
ToLower(c) ==
    LET upper == <<"A", "B", "C", "D", "E", "F", "G", "H", "I", "J", "K", "L", "M",
                   "N", "O", "P", "Q", "R", "S", "T", "U", "V", "W", "X", "Y", "Z">>
        lower == <<"a", "b", "c", "d", "e", "f", "g", "h", "i", "j", "k", "l", "m",
                   "n", "o", "p", "q", "r", "s", "t", "u", "v", "w", "x", "y", "z">>
    IN  IF \E k \in 1..26 : upper[k] = c
        THEN lower[CHOOSE k \in 1..26 : upper[k] = c]
        ELSE c

\* text.split(/[.!?]\s+/)
RECURSIVE SplitSentenceEnds(_, _)
SplitSentenceEnds(s, cur) ==
    IF s = <<>> THEN <<cur>>
    ELSE IF Head(s) \in {".", "!", "?"} /\ Len(s) >= 2 /\ IsSpace(s[2])
    THEN <<cur>> \o SplitSentenceEnds(trimStart(Tail(s)), <<>>)
    ELSE SplitSentenceEnds(Tail(s), Append(cur, Head(s)))

\* splitIntoSentences (lines 193-198)
splitIntoSentences(t) ==
    SelectSeq(MapTrim(SplitSentenceEnds(t, <<>>)), LAMBDA x : Len(x) > 10)

\* .split(/\s+/)
RECURSIVE SplitSpaces(_, _)
SplitSpaces(s, cur) ==
    IF s = <<>> THEN <<cur>>
    ELSE IF IsSpace(Head(s)) THEN <<cur>> \o SplitSpaces(trimStart(s), <<>>)
    ELSE SplitSpaces(Tail(s), Append(cur, Head(s)))

\* the stop words of line 208; those written in Cyrillic are spelled with
\* letters the texts of the model do not hold
StopWords ==
    { <<"a", "n", "d">>, <<"o", "r">>, <<"t", "h", "e">>, <<"o", "f">>, <<"i", "n">>,
      <<"o", "n">>, <<"a", "t">>, <<"t", "o">>, <<"f", "o", "r">>,
      <<"w", "i", "t", "h">>, <<"b", "y">> }

\* the test of lines 205-211 on one token
Qualifies(word) ==
    /\ Len(word) > 2
    /\ \E k \in 1..Len(word) : word[k] \in LatinLetters \cup {"CYR"}
    /\ [k \in 1..Len(word) |-> ToLower(word[k])] \notin StopWords

\* the reduce of lines 204-217, from token i (1-based) on
RECURSIVE ReducePhrases(_, _, _)
ReducePhrases(arr, i, acc) ==
    IF i > Len(arr) THEN acc
    ELSE LET word == arr[i]
             prev == IF i > 1 THEN arr[i - 1] ELSE <<>>
             phrase == IF prev # <<>> THEN prev \o <<" ">> \o word ELSE word
         IN  ReducePhrases(arr, i + 1,
                 IF Qualifies(word) /\ \A k \in 1..Len(acc) : acc[k] # phrase
                 THEN Append(acc, phrase) ELSE acc)

\* extractNounPhrases (lines 200-218)
extractNounPhrases(sentence) ==
    LET spaced == [k \in 1..Len(sentence) |->
                      IF sentence[k] \in {",", ";", ":", "!", "?", "(", ")"} THEN " "
                      ELSE sentence[k]]
    IN  ReducePhrases(SplitSpaces(spaced, <<>>), 1, <<>>)

\* the inner loop of lines 162-181 for one pair of sentences
PairTerms(srcPhrases, tgtPhrases) ==
    LET max == IF Len(srcPhrases) <= Len(tgtPhrases) THEN Len(srcPhrases)
               ELSE Len(tgtPhrases)
        all == [j \in 1..max |->
                   [term |-> trim(srcPhrases[j]), translation |-> trim(tgtPhrases[j]),
                    source_lang |-> "en", target_lang |-> "mk",
                    definition |-> "", category |-> "Auto-Learned"]]
        AllDigits(x) == \A k \in 1..Len(x) : IsDigit(x[k])
    IN  SelectSeq(all, LAMBDA t : /\ Len(t.term) > 2 /\ Len(t.translation) > 2
                                  /\ ~AllDigits(t.term) /\ ~AllDigits(t.translation))

\* the outer loop of lines 159-182, from sentence i on
RECURSIVE SentenceTerms(_, _, _)
SentenceTerms(src, tgt, i) ==
    IF i > Len(src) THEN <<>>
    ELSE PairTerms(extractNounPhrases(src[i]), extractNounPhrases(tgt[i]))
         \o SentenceTerms(src, tgt, i + 1)

\* the sentence gate of line 156
SentenceGate(src, tgt) == Len(src) = Len(tgt)

\* autoExtractAndSaveTerms (lines 154-182): the array newTerms
ExtractedTerms(source, target) ==
    LET srcSentences == splitIntoSentences(source)
        tgtSentences == splitIntoSentences(target)
    IN  IF SentenceGate(srcSentences, tgtSentences)
        THEN SentenceTerms(srcSentences, tgtSentences, 1)
        ELSE <<>>

SameKey(a, b) ==
    /\ a.term = b.term /\ a.translation = b.translation
    /\ a.source_lang = b.source_lang /\ a.target_lang = b.target_lang

\* .upsert(t, { onConflict: "term,translation,source_lang,target_lang" })
\* (lines 186-188): the row of that key takes the values of t, or a row is added
Upsert(rows, t, id) ==
    IF \E r \in rows : SameKey(r, t)
    THEN {IF SameKey(r, t)
          THEN [r EXCEPT !.definition = t.definition, !.category = t.category]
          ELSE r : r \in rows}
    ELSE rows \cup {[id |-> id, term |-> t.term, translation |-> t.translation,
                     source_lang |-> t.source_lang, target_lang |-> t.target_lang,
                     definition |-> t.definition, category |-> t.category]}

(***************************************************************************)
(* handleTranslate (TranslatorInterface.tsx, lines 73-145) and the calls   *)
(* of translateWithGemini (gemini.ts, lines 18-70).  The requests to the   *)
(* store that handleTranslate awaits without reading their error are       *)
(* applied as they are sent.  A chunked job is followed from               *)
(* handleTranslate; another caller is followed with a missing key, with a  *)
(* text of at most 5500 characters and with a text that has no chunk.      *)
(***************************************************************************)
\* a text of at most 5500 characters: empty, blank, or one short sentence
ShortTexts ==
    { <<>>, <<" ">>,
      <<"b", "i", "g", " ", "r", "e", "d", " ", "a", "p", "p", "l", "e", "s">> }

TranslateInit ==
    /\ apiKey \in {<<>>, <<"k">>}
    /\ long \in BOOLEAN
    /\ IF long THEN sourceText = join(chunks, ParagraphJoiner)
       ELSE chunks = <<>> /\ sourceText \in ShortTexts
    /\ hPc = "ready"
    /\ single = NoSingle
    /\ isTranslating = FALSE
    /\ translatedText = <<>>
    /\ translationMemory = <<>>
    /\ newTerms = <<>>
    /\ phrases = <<>>

\* handleTranslate, lines 73-105: the two guards, then the two selects
handleTranslate ==
    /\ hPc = "ready"
    /\ IF trim(sourceText) = <<>> THEN hPc' = "alert: Enter source text" /\ UNCHANGED isTranslating
       ELSE IF apiKey = <<>> THEN hPc' = "showSettings" /\ UNCHANGED isTranslating
       ELSE hPc' = "awaitTranslate" /\ isTranslating' = TRUE
    /\ UNCHANGED <<apiKey, sourceText, long, single, translatedText, translationMemory,
                   newTerms, phrases>>
    /\ UNCHANGED <<chunks, dispatchVars, chunkerVars, formatVars, storeVars>>

\* translateWithGemini is called by another caller than handleTranslate
DirectCall ==
    /\ hPc = "ready"
    /\ apiKey = <<>> \/ ~long \/ chunks = <<>>
    /\ hPc' = "direct"
    /\ UNCHANGED <<apiKey, sourceText, long, single, isTranslating, translatedText,
                   translationMemory, newTerms, phrases>>
    /\ UNCHANGED <<chunks, dispatchVars, chunkerVars, formatVars, storeVars>>

\* translateWithGemini(text, ..., apiKey), _isChunk = false, has been called
Called == hPc \in {"awaitTranslate", "direct"} /\ single.pc = "idle" /\ jobPc = "start"

\* line 26: the call rejects
RejectNoKey ==
    /\ Called
    /\ KeyMissing(apiKey)
    /\ single' = [single EXCEPT !.pc = "rejected"]
    /\ UNCHANGED <<apiKey, sourceText, long, hPc, isTranslating, translatedText,
                   translationMemory, newTerms, phrases>>
    /\ UNCHANGED <<chunks, dispatchVars, chunkerVars, formatVars, storeVars>>

\* lines 42-67: the un-chunked call sends its first request
SingleStart ==
    /\ Called
    /\ ~KeyMissing(apiKey)
    /\ ~long
    /\ single' = [single EXCEPT !.pc = "fetch", !.fetchAttempt = 1, !.requests = 1]
    /\ UNCHANGED <<apiKey, sourceText, long, hPc, isTranslating, translatedText,
                   translationMemory, newTerms, phrases>>
    /\ UNCHANGED <<chunks, dispatchVars, chunkerVars, formatVars, storeVars>>

\* the next turn of the loop of fetchGeminiWithRetry; when it is over, null
\* is returned and line 68 throws
SingleNextAttemptNoThrow(s) ==
    IF FetchExhausted(s.fetchAttempt) THEN [s EXCEPT !.pc = "resolved"]
    ELSE [s EXCEPT !.pc = "fetch", !.fetchAttempt = @ + 1, !.requests = @ + 1]
SingleNextAttempt(s) ==
    IF FetchExhausted(s.fetchAttempt) THEN [s EXCEPT !.pc = "rejected"]
    ELSE [s EXCEPT !.pc = "fetch", !.fetchAttempt = @ + 1, !.requests = @ + 1]

\* a fetch of the un-chunked call comes back (lines 160-204, 67-69)
SingleFetchReturns ==
    /\ single.pc = "fetch"
    /\ \E r \in Responses(sourceText) :
          single' = IF r.kind = "ok" /\ HasText(r.text)
                    THEN [single EXCEPT !.pc = "resolved", !.result = trim(r.text)]
                    ELSE IF r.kind = "ok" THEN SingleNextAttempt(single)
                    ELSE [single EXCEPT !.pc = "fetchBackoff"]
    /\ UNCHANGED <<apiKey, sourceText, long, hPc, isTranslating, translatedText,
                   translationMemory, newTerms, phrases>>
    /\ UNCHANGED <<chunks, dispatchVars, chunkerVars, formatVars, storeVars>>

\* a backoff timer of the un-chunked call fires (lines 179, 186, 203)
SingleBackoffDone ==
    /\ single.pc = "fetchBackoff"
    /\ single' = SingleNextAttempt(single)
    /\ UNCHANGED <<apiKey, sourceText, long, hPc, isTranslating, translatedText,
                   translationMemory, newTerms, phrases>>
    /\ UNCHANGED <<chunks, dispatchVars, chunkerVars, formatVars, storeVars>>

\* s.replace(/p1|p2|.../g, ""), no pattern being a prefix of another
RECURSIVE StripAll(_, _)
StripAll(s, pats) ==
    IF s = <<>> THEN <<>>
    ELSE IF \E p \in pats : Len(s) >= Len(p) /\ SubSeq(s, 1, Len(p)) = p
    THEN LET p == CHOOSE q \in pats : Len(s) >= Len(q) /\ SubSeq(s, 1, Len(q)) = q
         IN  StripAll(SubSeq(s, Len(p) + 1, Len(s)), pats)
    ELSE <<Head(s)>> \o StripAll(Tail(s), pats)

\* cleanedResult (lines 115-118); "BACKTICK" is the character U+0060
CleanedResult(result) ==
    trim(StripAll(StripAll(result, {<<"BACKTICK", "BACKTICK", "BACKTICK">>}),
                  {<<"<", "T", "E", "X", "T", ">">>, <<"<", "/", "T", "E", "X", "T", ">">>}))

\* finally (lines 142-144), once autoExtractAndSaveTerms has nothing left
Finish(terms) ==
    /\ hPc' = IF terms = <<>> THEN "done" ELSE "upserting"
    /\ isTranslating' = (terms # <<>>)

\* lines 107-129: translateWithGemini resolved; the result is cleaned and
\* shown, the pair is inserted into translation_memory
TranslationArrives ==
    /\ hPc = "awaitTranslate"
    /\ jobPc = "resolved" \/ single.pc = "resolved"
    /\ LET result == IF jobPc = "resolved" THEN output ELSE single.result
           cleanedResult == CleanedResult(result)
       IN  /\ translatedText' = cleanedResult
           /\ translationMemory' =
                  Append(translationMemory,
                         [source_text |-> sourceText, target_text |-> cleanedResult,
                          source_lang |-> "en", target_lang |-> "mk"])
    /\ hPc' = "extract"
    /\ UNCHANGED <<apiKey, sourceText, long, single, isTranslating, newTerms, phrases>>
    /\ UNCHANGED <<chunks, dispatchVars, chunkerVars, formatVars, storeVars>>

\* lines 131-136, 148-182: autoExtractAndSaveTerms(sourceText, cleanedResult)
\* builds newTerms
autoExtractAndSaveTerms ==
    /\ hPc = "extract"
    /\ newTerms' = ExtractedTerms(sourceText, translatedText)
    /\ Finish(newTerms')
    /\ UNCHANGED <<apiKey, sourceText, long, single, translatedText, translationMemory,
                   phrases>>
    /\ UNCHANGED <<chunks, dispatchVars, chunkerVars, formatVars, storeVars>>

\* lines 185-189: one upsert of autoExtractAndSaveTerms is applied
UpsertTerm ==
    /\ hPc = "upserting"
    /\ terminology' = Upsert(terminology, Head(newTerms), nextTermId)
    /\ nextTermId' = nextTermId + Cardinality(terminology') - Cardinality(terminology)
    /\ newTerms' = Tail(newTerms)
    /\ Finish(Tail(newTerms))
    /\ UNCHANGED <<apiKey, sourceText, long, single, translatedText, translationMemory,
                   phrases>>
    /\ UNCHANGED <<chunks, dispatchVars, chunkerVars, formatVars, activeTab, rulesVars, termOp>>

\* lines 139-144: translateWithGemini rejected; catch, alert, finally
TranslationFails ==
    /\ hPc = "awaitTranslate"
    /\ jobPc = "rejected" \/ single.pc = "rejected"
    /\ hPc' = "alert: Error"
    /\ isTranslating' = FALSE
    /\ UNCHANGED <<apiKey, sourceText, long, single, translatedText, translationMemory,
                   newTerms, phrases>>
    /\ UNCHANGED <<chunks, dispatchVars, chunkerVars, formatVars, storeVars>>

Init == DispatchInit /\ ChunkerIdle /\ FormatIdle /\ StoreIdle /\ TranslateInit

Next ==
    \/ handleTranslate
    \/ DirectCall
    \/ RejectNoKey
    \/ SingleStart
    \/ SingleFetchReturns
    \/ SingleBackoffDone
    \/ TranslationArrives
    \/ autoExtractAndSaveTerms
    \/ UpsertTerm
    \/ TranslationFails
    \/ StartJob
    \/ \E i \in Idx : FetchReturns(i)
    \/ \E i \in Idx : FetchBackoffDone(i)
    \/ \E i \in Idx : ChunkBackoffDone(i)

Spec == Init /\ [][Next]_vars

TypeOK ==
    /\ activeWorkers \in 0..(MaxChunks + 1)
    /\ loopI \in 0..N
    /\ jobPc \in {"idle", "start", "race", "all", "resolved", "rejected"}

(***************************************************************************)
(* Properties of the chunked job                                           *)
(***************************************************************************)
\* the result a chunk can end with: its translation or its placeholder
ChunkOutcomes(i) == {ProviderTranslation(Chunk(i)), Placeholder(i, Chunk(i))}

InFlight == {i \in Idx : worker[i].pc \in {"fetch", "fetchBackoff", "chunkBackoff"}}

\* x occurs in str
Occurs(x, str) ==
    \E k \in 1..(Len(str) - Len(x) + 1) : SubSeq(str, k, k + Len(x) - 1) = x

EndsWithSeq(str, x) ==
    Len(str) >= Len(x) /\ SubSeq(str, Len(str) - Len(x) + 1, Len(str)) = x

\* C1: when the job has finished, every chunk index 0..N-1 holds exactly one
\* result, assigned once, which is the translation or the failure
\* placeholder of that chunk and is not empty, and the joined output is made
\* of all N of them: the final filter removes none.
C1_EveryChunkOneResult ==
    jobPc = "resolved" =>
        /\ \A i \in Idx :
             /\ results[i].def
             /\ writes[i] = 1
             /\ results[i].str # <<>>
             /\ results[i].str \in ChunkOutcomes(i)
        /\ output = join([k \in 1..N |-> results[k - 1].str], ParagraphJoiner)

\* C1 witness: a finished job of at least four chunks with a failed chunk and
\* a translated chunk
C1_Witness ==
    /\ jobPc = "resolved"
    /\ N >= 4
    /\ \E i, j \in Idx :
         /\ results[i].str = Placeholder(i, Chunk(i))
         /\ results[j].str = ProviderTranslation(Chunk(j))

\* C2: the text the job resolves with is, part by part in ascending chunk
\* index, a result of chunk 0, of chunk 1, ..., of chunk N-1, joined by the
\* paragraph joiner, whatever the order in which the chunks completed.
C2_JoinedInIndexOrder ==
    jobPc = "resolved" =>
        \E ok \in [Idx -> BOOLEAN] :
            output = join([k \in 1..N |-> IF ok[k - 1]
                                          THEN ProviderTranslation(Chunk(k - 1))
                                          ELSE Placeholder(k - 1, Chunk(k - 1))],
                          ParagraphJoiner)

\* C2 witness: a finished job in which a chunk completed before a chunk of
\* lower index did
C2_Witness == jobPc = "resolved" /\ outOfOrder /\ N >= 3

\* C3: at most MAX_CONCURRENCY chunk translations are in flight (dispatched,
\* not finished; waiting in a backoff counts as in flight).
C3_BoundedInFlight == Cardinality(InFlight) <= MAX_CONCURRENCY

\* C3 witness: the pool is full, one worker waits in a backoff, and the
\* dispatch loop waits for a slot with chunks left to dispatch
C3_Witness ==
    /\ Cardinality(InFlight) = MAX_CONCURRENCY
    /\ jobPc = "race"
    /\ loopI < N
    /\ \E i \in Idx : worker[i].pc \in {"fetchBackoff", "chunkBackoff"}

\* the step in which chunk i gives up: its last backoff is over
GivesUp(i) ==
    /\ worker[i].pc = "chunkBackoff"
    /\ worker[i].attempt = ChunkAttempts
    /\ worker'[i].pc # "chunkBackoff"

\* C4: when a chunk has failed on every attempt, its result becomes the
\* placeholder, which embeds the chunk's number and ends with the chunk's
\* original text; the job is not rejected, and is resolved if this was the
\* last chunk; no sibling's result changes and no sibling is stopped (a
\* sibling keeps its position, or is dispatched by this very step).
C4_FailureIsLocal ==
    [][\A i \in Idx : GivesUp(i) =>
          /\ results'[i].def
          /\ Occurs(<<"c", "h", "u", "n", "k", " ">> \o NumStr(i + 1) \o <<"]">>, results'[i].str)
          /\ EndsWithSeq(results'[i].str, <<" ">> \o Chunk(i))
          /\ worker'[i].pc = "done"
          /\ jobPc' # "rejected"
          /\ (\A j \in Idx : worker'[j].pc = "done") => jobPc' = "resolved"
          /\ \A j \in Idx \ {i} :
               /\ results'[j] = results[j]
               /\ \/ worker'[j] = worker[j]
                  \/ worker[j].pc = "idle" /\ worker'[j] = FirstFetch
      ]_vars

\* C4 witness: a finished job in which a chunk ended as placeholder while
\* a sibling was translated
C4_Witness ==
    /\ jobPc = "resolved"
    /\ \E i, j \in Idx :
         /\ i < j
         /\ results[i].def /\ results[i].str = Placeholder(i, Chunk(i))
         /\ results[j].def /\ results[j].str = ProviderTranslation(Chunk(j))

\* C5 as stated: at most 3 provider requests per chunk.
C5_AtMostThreeRequests == \A i \in Idx : requests[i] <= ChunkAttempts

\* C5 amended: translateChunk makes at most 3 attempts and each attempt
\* issues at most 4 provider requests, so at most 12 provider requests are
\* issued for a chunk before its result is fixed.
C5_AtMostTwelveRequests ==
    \A i \in Idx :
        /\ worker[i].attempt <= ChunkAttempts
        /\ requests[i] <= ChunkAttempts * FetchAttempts

\* C5 witness: the twelfth request of a chunk is in flight
C5_Witness ==
    \E i \in Idx : worker[i].pc = "fetch" /\ requests[i] = ChunkAttempts * FetchAttempts


(***************************************************************************)
(* The chunker on its own: splitTextIntoChunks applied to every text over  *)
(* a small alphabet and to every small maxChars.                           *)
(***************************************************************************)
ChunkerAlphabet == {"a", ".", " ", "\n", "\r"}
ChunkerTexts == UNION {[1..n -> ChunkerAlphabet] : n \in 0..MaxTextLen}

ChunkerInit ==
    /\ text \in ChunkerTexts
    /\ maxChars \in 1..MaxLimit
    /\ splitPc = "called"
    /\ chunks = <<>>
    /\ DispatchIdle
    /\ FormatIdle
    /\ StoreIdle
    /\ TranslateIdle

SplitReturns ==
    /\ splitPc = "called"
    /\ chunks' = splitTextIntoChunks(text, maxChars)
    /\ splitPc' = "returned"
    /\ UNCHANGED <<text, maxChars, dispatchVars, formatVars, storeVars, translateVars>>

ChunkerNext == SplitReturns

SpecChunker == ChunkerInit /\ [][ChunkerNext]_vars

\* one text piece followed by its terminal punctuation: no character that
\* is not punctuation comes after a punctuation character
IsSingleSentence(c) ==
    \A k \in 1..Len(c) : \A m \in (k + 1)..Len(c) : IsPunct(c[k]) => IsPunct(c[m])

\* C6: every returned chunk is at most maxChars long, unless it is one
\* single sentence (one text piece with its terminal punctuation).
C6_ChunkWithinLimit ==
    splitPc = "returned" =>
        \A k \in 1..Len(chunks) : Len(chunks[k]) <= maxChars \/ IsSingleSentence(chunks[k])

\* white space normalization: runs collapsed to one space, ends trimmed
Normalize(s) == trim(CollapseSpace(s))

\* C7: the chunks joined with the paragraph joiner are the text, up to
\* white space normalization (runs of white space collapsed to one space,
\* ends trimmed).
C7_JoinReconstructsText ==
    splitPc = "returned" => Normalize(join(chunks, ParagraphJoiner)) = Normalize(text)

\* C8: every returned chunk is non-empty and is trimmed; a text of white
\* space only yields no chunk.
C8_ChunksNonEmpty ==
    splitPc = "returned" =>
        /\ \A k \in 1..Len(chunks) : chunks[k] # <<>> /\ trim(chunks[k]) = chunks[k]
        /\ (trim(text) = <<>> => chunks = <<>>)

\* C8 witness: a text that begins with an empty paragraph, followed by an
\* oversized paragraph whose sentences carry leading white space
C8_Witness ==
    /\ splitPc = "returned"
    /\ text = <<"\n", "\n", " ", ".", " ", "a">>
    /\ maxChars = 1
    /\ chunks = <<<<".">>, <<"a">>>>


(***************************************************************************)
(* The formatter on its own: formatToTradosHTML and the exported           *)
(* parseContinuousLegalText applied to texts of a few lines.               *)
(***************************************************************************)
EndToEndInput ==
    <<"T", "i", "t", "l", "e", "\n",
    "S", "u", "b", "t", "i", "t", "l", "e", "\n",
    "(", "1", ")", " ", "F", "i", "r", "s", "t", " ", "p", "o", "i", "n", "t", ".", "\n",
    "(", "2", ")", " ", "S", "e", "c", "o", "n", "d", " ", "p", "o", "i", "n", "t", ".">>
LineVocabulary ==
    { <<"T", "i", "t", "l", "e">>,
      <<"(", "1", ")", " ", "a">>,
      <<"1", ".", " ", " ", "b">>,
      <<"(", "a", ")", " ", "c">>,
      <<"EMDASH", " ", "d">>,
      <<"N", "o", "t", "e", ":">>,
      <<"A", "r", "t", " ", "5">>,
      <<"x", " ", "y">>,
      <<"(", "1", ")", " ", "(", "a", ")", " ", "f", "o", "o">>,
      <<"1", ".", " ", "A", "r", "t", "i", "c", "l", "e", " ", "5">> }

Toggles ==
    [removeOptionalHyphens : BOOLEAN, removeMultipleSpaces : BOOLEAN,
     useTabsAfterManualNumbers : BOOLEAN]

\* the texts made of n lines of the vocabulary, separated by line breaks
RECURSIVE TextsOfLines(_)
TextsOfLines(n) ==
    IF n = 1 THEN LineVocabulary
    ELSE {t \o <<"\n">> \o l : t \in TextsOfLines(n - 1), l \in LineVocabulary}

FormatInputs == {EndToEndInput} \cup UNION {TextsOfLines(n) : n \in 1..MaxLines}

FormatInit ==
    /\ raw \in FormatInputs
    /\ rules \in Toggles
    /\ fmtPc = "called"
    /\ paragraphs = <<>>
    /\ cleanOnce = <<>>
    /\ cleanTwice = <<>>
    /\ css = <<>>
    /\ chunks = <<>>
    /\ DispatchIdle
    /\ ChunkerIdle
    /\ StoreIdle
    /\ TranslateIdle

\* formatToTradosHTML(raw, rules) returns
FormatReturns ==
    /\ fmtPc = "called"
    /\ paragraphs' = formatToTradosHTML(raw, rules)
    /\ fmtPc' = "html"
    /\ UNCHANGED <<css, raw, rules, cleanOnce, cleanTwice, chunks, dispatchVars, chunkerVars,
                   storeVars, translateVars>>

\* parseContinuousLegalText(raw, rules) returns
ContinuousReturns ==
    /\ fmtPc = "called"
    /\ paragraphs' = parseContinuousLegalText(raw, rules)
    /\ fmtPc' = "continuous"
    /\ UNCHANGED <<css, raw, rules, cleanOnce, cleanTwice, chunks, dispatchVars, chunkerVars,
                   storeVars, translateVars>>

FormatNext == FormatReturns \/ ContinuousReturns

SpecFormat == FormatInit /\ [][FormatNext]_vars

\* the role the classification rules give to an emitted paragraph text
RoleByRules(html) == Classify(html)

\* C9: the end-to-end input rendered with tab insertion gives the four
\* paragraphs title, subtitle and two preamble points with a tab after the
\* marker; and every body paragraph (third onwards) of a multi-line text
\* carries the role the classification rules assign to it.
C9_EndToEndRoles ==
    fmtPc = "html" =>
        /\ (raw = EndToEndInput /\ rules.useTabsAfterManualNumbers) =>
              paragraphs = << [cls |-> "document-title", html |-> <<"T", "i", "t", "l", "e">>],
                              [cls |-> "document-subtitle", html |-> <<"S", "u", "b", "t", "i", "t", "l", "e">>],
                              [cls |-> "preamble-point", html |-> <<"(", "1", ")", "\t", "F", "i", "r", "s", "t", " ", "p", "o", "i", "n", "t", ".">>],
                              [cls |-> "preamble-point", html |-> <<"(", "2", ")", "\t", "S", "e", "c", "o", "n", "d", " ", "p", "o", "i", "n", "t", ".">>] >>
        /\ "\n" \in Range(raw) =>
              \A k \in 3..Len(paragraphs) : paragraphs[k].cls = RoleByRules(paragraphs[k].html)

\* the lines of a text: its pieces between line breaks that are not blank
LinesOf(t) == filterNonEmpty(MapTrim(SplitLines(t, <<>>)))

\* C10: parseContinuousLegalText on a text of k >= 1 non-empty lines emits k
\* paragraphs in input order: line 1 as document-title, line 2 as
\* document-subtitle, each further line as a body paragraph of its own.
C10_OneParagraphPerLine ==
    fmtPc = "continuous" =>
        LET k == Len(LinesOf(raw)) IN
        /\ Len(paragraphs) = k
        /\ k >= 1 => paragraphs[1].cls = "document-title"
        /\ k >= 2 => paragraphs[2].cls = "document-subtitle"
        /\ \A j \in 3..k : paragraphs[j].cls \notin {"document-title", "document-subtitle"}

\* the role of a body line by the first matching rule of the fixed order
\* (the class names of the code: article-point is the numbered point,
\* letter-point the lettered point, normal the body paragraph)
FirstMatchRole(line) ==
    IF DigitsDotLen(line) > 0 THEN "article-point"
    ELSE IF ParenDigitsLen(line) > 0 THEN "preamble-point"
    ELSE IF ParenLetterLen(line) > 0 THEN "letter-point"
    ELSE IF DashLen(line) > 0 THEN "bullet-point"
    ELSE IF line[Len(line)] = ":" THEN "section-header"
    ELSE IF EndsWithWordNumber(line) THEN "article-title"
    ELSE "normal"

\* C11: each body line (third non-empty line onwards) of the text given to
\* formatToTradosHTML or to parseContinuousLegalText is emitted as a
\* paragraph whose role is that of the first matching rule in the order
\* numbered, preamble, lettered, bullet, section-header, article-title, body,
\* with tab insertion on or off; so "(1) (a) foo" is a preamble-point and
\* "1. Article 5" a numbered point (class article-point).
C11_FirstMatchRole ==
    fmtPc \in {"html", "continuous"} =>
        \A j \in 3..Len(LinesOf(raw)) :
            /\ Len(paragraphs) >= j
            /\ paragraphs[j].cls = FirstMatchRole(LinesOf(raw)[j])

(***************************************************************************)
(* The cleaner on its own: cleanTextForTrados applied to texts with a run  *)
(* of spaces and a soft hyphen, and applied again to its own result.       *)
(***************************************************************************)
Spaces(n) == [k \in 1..n |-> " "]

\* "a", a run of n spaces, "b"; the soft hyphen nowhere, before the run,
\* inside the run or after it
CleanInputs ==
    UNION { { <<"a">> \o Spaces(n) \o <<"b">>,
              <<"a", "SHY">> \o Spaces(n) \o <<"b">>,
              <<"a">> \o Spaces(n \div 2) \o <<"SHY">> \o Spaces(n - (n \div 2)) \o <<"b">>,
              <<"a">> \o Spaces(n) \o <<"SHY", "b">> } : n \in 0..MaxRun }

CleanInit ==
    /\ raw \in CleanInputs
    /\ rules \in Toggles
    /\ fmtPc = "called"
    /\ paragraphs = <<>>
    /\ cleanOnce = <<>>
    /\ cleanTwice = <<>>
    /\ css = <<>>
    /\ chunks = <<>>
    /\ DispatchIdle
    /\ ChunkerIdle
    /\ StoreIdle
    /\ TranslateIdle

\* cleanTextForTrados(raw, rules) returns
CleanReturns ==
    /\ fmtPc = "called"
    /\ cleanOnce' = cleanTextForTrados(raw, rules)
    /\ fmtPc' = "cleaned"
    /\ UNCHANGED <<css, raw, rules, paragraphs, cleanTwice, chunks, dispatchVars, chunkerVars,
                   storeVars, translateVars>>

\* cleanTextForTrados(cleanOnce, rules) returns
RecleanReturns ==
    /\ fmtPc = "cleaned"
    /\ cleanTwice' = cleanTextForTrados(cleanOnce, rules)
    /\ fmtPc' = "recleaned"
    /\ UNCHANGED <<css, raw, rules, paragraphs, cleanOnce, chunks, dispatchVars, chunkerVars,
                   storeVars, translateVars>>

CleanNext == CleanReturns \/ RecleanReturns

SpecClean == CleanInit /\ [][CleanNext]_vars

\* C12: cleaning is idempotent: for every text (soft hyphens, runs of 1 to
\* MaxRun spaces) and every setting of the toggles, cleaning the cleaned
\* text again returns it unchanged.
C12_CleanIdempotent ==
    fmtPc = "recleaned" => cleanTwice = cleanOnce

(***************************************************************************)
(* The formatting-rule store (table formatting_rules) and its manager,     *)
(* FormattingRulesManager.tsx, open in two clients.  A write the handler   *)
(* awaits without reading its error (the updates of handleSetDefault, the  *)
(* delete of handleDelete) is applied by the database as one step; a       *)
(* request whose error the handler reads comes back with either outcome.   *)
(***************************************************************************)
Clients == {1, 2}

\* the row the migration inserts (lines 153-198)
SeedRule == [id |-> 1, is_default |-> TRUE, rules_json |-> "MK_TRADOS_RULES"]
\* selectedRule = null; a selected rule is named by its id
NoRule == 0

\* what the manager renders of the loaded rows: their ids and default marks
Listed(rows) == {[id |-> r.id, is_default |-> r.is_default] : r \in rows}

\* the files given to handleImport: text that is not JSON, and the JSON of a
\* TradosRules object
RuleFiles ==
    { [parses |-> FALSE, json |-> "none"],
      [parses |-> TRUE, json |-> "MK_TRADOS_RULES"] }

Defaults(rows) == {r \in rows : r.is_default}
RuleIdsOf(rows) == {r.id : r \in rows}

\* .update({ is_default: false }).neq("id", id)   (lines 35-38)
UnsetOthersSkipped(rows, id) == rows
UnsetOthers(rows, id) ==
    {IF r.id # id THEN [r EXCEPT !.is_default = FALSE] ELSE r : r \in rows}

\* .update({ is_default: true }).eq("id", id)   (lines 40-43)
SetDefaultRow(rows, id) ==
    {IF r.id = id THEN [r EXCEPT !.is_default = TRUE] ELSE r : r \in rows}

\* .delete().eq("id", id)   (line 29)
DeleteRow(rows, id) == {r \in rows : r.id # id}

\* data.find((r) => r.is_default) on the rows ordered by created_at descending
FindDefault(rows) == CHOOSE r \in Defaults(rows) : \A q \in Defaults(rows) : q.id <= r.id

\* history kept in ruleOp[c].solo: a write of client c ends the undisturbed
\* run of every other client that stands between its two writes
Disturb(ops, c) ==
    [d \in Clients |-> IF d # c /\ ops[d].pc = "set" THEN [ops[d] EXCEPT !.solo = FALSE]
                       ELSE ops[d]]

RulesInit ==
    /\ activeTab = "formatting"
    /\ formattingRules = {SeedRule}
    /\ nextRuleId = 2
    /\ uiRules = [c \in Clients |-> {}]
    /\ selectedRule = [c \in Clients |-> NoRule]
    /\ downloads = {}
    \* useEffect(() => { loadRules(); }, [])
    /\ ruleOp = [c \in Clients |-> [NoRuleOp EXCEPT !.kind = "mount", !.pc = "load"]]

\* loadRules (lines 15-26): the select comes back
loadRules(c) ==
    /\ activeTab = "formatting"
    /\ ruleOp[c].pc = "load"
    /\ \E ok \in BOOLEAN :
          IF ok
          THEN /\ uiRules' = [uiRules EXCEPT ![c] = Listed(formattingRules)]
               /\ selectedRule' = [selectedRule EXCEPT ![c] =
                      IF Defaults(formattingRules) # {} THEN FindDefault(formattingRules).id
                      ELSE @]
          ELSE UNCHANGED <<uiRules, selectedRule>>
    /\ ruleOp' = [ruleOp EXCEPT ![c] = NoRuleOp]
    /\ UNCHANGED <<activeTab, formattingRules, nextRuleId, downloads>>
    /\ UNCHANGED <<chunks, dispatchVars, chunkerVars, formatVars, termVars, translateVars>>

\* handleSetDefault(id) (lines 33-38): the button of a listed rule is
\* pressed and the first update is applied
SetDefaultUnset(c, id) ==
    /\ activeTab = "formatting"
    /\ ruleOp[c] = NoRuleOp
    /\ id \in RuleIdsOf(uiRules[c])
    /\ formattingRules' = UnsetOthers(formattingRules, id)
    /\ ruleOp' = [Disturb(ruleOp, c) EXCEPT ![c] =
                     [NoRuleOp EXCEPT !.kind = "setDefault", !.pc = "set", !.id = id,
                                      !.solo = id \in RuleIdsOf(formattingRules),
                                      !.prior = Cardinality(Defaults(formattingRules))]]
    /\ UNCHANGED <<activeTab, nextRuleId, uiRules, selectedRule, downloads>>
    /\ UNCHANGED <<chunks, dispatchVars, chunkerVars, formatVars, termVars, translateVars>>

\* handleSetDefault(id) (lines 40-44): the second update is applied, then
\* loadRules is called
SetDefaultSet(c) ==
    /\ activeTab = "formatting"
    /\ ruleOp[c].kind = "setDefault" /\ ruleOp[c].pc = "set"
    /\ formattingRules' = SetDefaultRow(formattingRules, ruleOp[c].id)
    /\ ruleOp' = [Disturb(ruleOp, c) EXCEPT ![c].pc = "load"]
    /\ UNCHANGED <<activeTab, nextRuleId, uiRules, selectedRule, downloads>>
    /\ UNCHANGED <<chunks, dispatchVars, chunkerVars, formatVars, termVars, translateVars>>

\* handleDelete(id) (lines 28-31); its button is rendered for the listed
\* rules that are not the default in the list (lines 165-175)
handleDelete(c, id) ==
    /\ activeTab = "formatting"
    /\ ruleOp[c] = NoRuleOp
    /\ \E r \in uiRules[c] : r.id = id /\ ~r.is_default
    /\ formattingRules' = DeleteRow(formattingRules, id)
    /\ ruleOp' = [Disturb(ruleOp, c) EXCEPT ![c] =
                     [NoRuleOp EXCEPT !.kind = "delete", !.pc = "load"]]
    /\ UNCHANGED <<activeTab, nextRuleId, uiRules, selectedRule, downloads>>
    /\ UNCHANGED <<chunks, dispatchVars, chunkerVars, formatVars, termVars, translateVars>>

\* handleImport (lines 63-67, 99): a file is chosen and handed to the reader
ImportRead(c, f) ==
    /\ activeTab = "formatting"
    /\ ruleOp[c] = NoRuleOp
    /\ nextRuleId + Cardinality({d \in Clients : ruleOp[d].kind = "import"}) <= MaxRules
    /\ ruleOp' = [ruleOp EXCEPT ![c] =
                     [NoRuleOp EXCEPT !.kind = "import", !.pc = "onload", !.file = f]]
    /\ UNCHANGED <<activeTab, formattingRules, nextRuleId, uiRules, selectedRule, downloads>>
    /\ UNCHANGED <<chunks, dispatchVars, chunkerVars, formatVars, termVars, translateVars>>

\* reader.onload (lines 68-81, 92-97): JSON.parse, then the insert is sent
ImportOnload(c) ==
    /\ activeTab = "formatting"
    /\ ruleOp[c].kind = "import" /\ ruleOp[c].pc = "onload"
    /\ ruleOp' = [ruleOp EXCEPT ![c].pc =
                     IF ruleOp[c].file.parses THEN "insert" ELSE "alert: Error importing rules"]
    /\ UNCHANGED <<activeTab, formattingRules, nextRuleId, uiRules, selectedRule, downloads>>
    /\ UNCHANGED <<chunks, dispatchVars, chunkerVars, formatVars, termVars, translateVars>>

\* the insert of lines 82-91 comes back
ImportInsert(c) ==
    /\ activeTab = "formatting"
    /\ ruleOp[c].kind = "import" /\ ruleOp[c].pc = "insert"
    /\ \E ok \in BOOLEAN :
          IF ok
          THEN /\ formattingRules' = formattingRules \cup
                      {[id |-> nextRuleId, is_default |-> FALSE,
                        rules_json |-> ruleOp[c].file.json]}
               /\ nextRuleId' = nextRuleId + 1
               /\ ruleOp' = [Disturb(ruleOp, c) EXCEPT ![c].pc = "load"]
          ELSE /\ ruleOp' = [ruleOp EXCEPT ![c].pc = "alert: Error saving to database"]
               /\ UNCHANGED <<formattingRules, nextRuleId>>
    /\ UNCHANGED <<activeTab, uiRules, selectedRule, downloads>>
    /\ UNCHANGED <<chunks, dispatchVars, chunkerVars, formatVars, termVars, translateVars>>

\* the modal alert of line 88 or 94 is dismissed and the handler returns
AlertDismissed(c) ==
    /\ activeTab = "formatting"
    /\ ruleOp[c].pc \in {"alert: Error importing rules", "alert: Error saving to database"}
    /\ ruleOp' = [ruleOp EXCEPT ![c] = NoRuleOp]
    /\ UNCHANGED <<activeTab, formattingRules, nextRuleId, uiRules, selectedRule, downloads>>
    /\ UNCHANGED <<chunks, dispatchVars, chunkerVars, formatVars, termVars, translateVars>>

RulesNext ==
    \E c \in Clients :
        \/ loadRules(c)
        \/ \E id \in 1..MaxRules : SetDefaultUnset(c, id)
        \/ SetDefaultSet(c)
        \/ \E id \in 1..MaxRules : handleDelete(c, id)
        \/ \E f \in RuleFiles : ImportRead(c, f)
        \/ ImportOnload(c)
        \/ ImportInsert(c)
        \/ AlertDismissed(c)

(***************************************************************************)
(* The terminology store (TerminologyManager.tsx, tmxParser.ts, the table  *)
(* terminology of the migration).  One session runs handleTMXImport step   *)
(* by step; the single writes (Save, Update, delete, and the upsert of     *)
(* autoExtractAndSaveTerms in a session of the translator) are applied at  *)
(* any time, from any session.  A row is edited or deleted by the id it    *)
(* had in some list, which may be a row that is gone.                      *)
(***************************************************************************)
MaxTerms == 3

\* const BATCH = 100 (line 110)
BATCH == 100

TermWords == { <<"c", "a", "t">>, <<"d", "o", "g">> }

\* formData as the form is filled in (lines 20-27)
FormData(word) ==
    [term |-> word, translation |-> <<"m", "k">>, definition |-> "",
     source_lang |-> "en", target_lang |-> "mk", category |-> ""]

\* a candidate of autoExtractAndSaveTerms (TranslatorInterface.tsx, lines 172-179)
AutoTerm(word) == [FormData(word) EXCEPT !.category = "Auto-Learned"]

\* the files given to handleTMXImport: one that the XML parser refuses, its
\* document holding what was read before the error, and three that parse.
\* A <tu> is told by whether it has two <tuv> with a <seg> each, the text of
\* the two <seg>, and the two language attributes ("" when there is none).
TmxFiles ==
    LET Tu(complete, source, sourceLang, targetLang) ==
            [complete |-> complete, source |-> source, target |-> <<"m", "k">>,
             sourceLang |-> sourceLang, targetLang |-> targetLang]
        CatTu == Tu(TRUE, <<" ", "c", "a", "t">>, "en-US", "mk-MK")
        DogTu == Tu(TRUE, <<"d", "o", "g">>, "", "")
    IN  { [parses |-> FALSE, tus |-> <<CatTu>>],
          [parses |-> TRUE, tus |-> <<CatTu>>],
          [parses |-> TRUE, tus |-> <<CatTu, DogTu>>],
          [parses |-> TRUE, tus |-> <<Tu(FALSE, <<"c", "a", "t">>, "en", "mk"),
                                     Tu(TRUE, <<" ">>, "en", "mk"), DogTu, DogTu>>] }

\* lang.split("-")[0] (lines 60-61), after the defaults of lines 31-38
LangCode(attr, default) ==
    IF attr = "" THEN default
    ELSE IF attr = "en-US" THEN "en"
    ELSE IF attr = "mk-MK" THEN "mk"
    ELSE attr

\* the test of lines 15-18: the document holds a parsererror
ParseThrowsSkipped(file) == FALSE
ParseThrows(file) == ~file.parses

\* parseTMXFile, lines 20-70: the entries of the <tu> elements from k on
RECURSIVE TmxEntries(_, _)
TmxEntries(tus, k) ==
    IF k > Len(tus) THEN <<>>
    ELSE LET tu == tus[k]
             sourceText_ == trim(tu.source)
             targetText_ == trim(tu.target)
         IN  (IF tu.complete /\ sourceText_ # <<>> /\ targetText_ # <<>>
              THEN <<[source |-> sourceText_, target |-> targetText_,
                      sourceLang |-> LangCode(tu.sourceLang, "en"),
                      targetLang |-> LangCode(tu.targetLang, "mk")]>>
              ELSE <<>>) \o TmxEntries(tus, k + 1)

\* the row handleTMXImport makes of an entry (lines 112-122), without the
\* columns the table of the migration does not have
TmxRow(e) ==
    [term |-> e.source, translation |-> e.target, definition |-> "",
     source_lang |-> e.sourceLang, target_lang |-> e.targetLang,
     category |-> "TMX Import"]

WithId(r, id) ==
    [id |-> id, term |-> r.term, translation |-> r.translation,
     source_lang |-> r.source_lang, target_lang |-> r.target_lang,
     definition |-> r.definition, category |-> r.category]

\* unique_term_pair: a row other than the row `self` holds the key of r
Conflicts(rows, r, self) == \E x \in rows : x.id # self /\ SameKey(x, r)

\* .insert([formData]) (line 392): refused by unique_term_pair
InsertRowUnchecked(rows, r, id) == rows \cup {WithId(r, id)}
InsertRow(rows, r, id) ==
    IF Conflicts(rows, r, 0) THEN rows ELSE rows \cup {WithId(r, id)}

\* .update(formData).eq("id", editingId) (lines 387-391)
UpdateRow(rows, r, id) ==
    IF Conflicts(rows, r, id) THEN rows
    ELSE {IF x.id = id THEN WithId(r, id) ELSE x : x \in rows}

\* .upsert(batch, { onConflict: ..., ignoreDuplicates: true }) (lines 124-127):
\* the rows of the batch from k on, each one left out when its key is there
RECURSIVE InsertIgnore(_, _, _, _)
InsertIgnore(rows, batch, k, id) ==
    IF k > Len(batch) THEN rows
    ELSE IF Conflicts(rows, TmxRow(batch[k]), 0)
    THEN InsertIgnore(rows, batch, k + 1, id)
    ELSE InsertIgnore(rows \cup {WithId(TmxRow(batch[k]), id)}, batch, k + 1, id + 1)

TermsInit ==
    /\ activeTab = "terminology"
    /\ terminology = {}
    /\ nextTermId = 1
    /\ termOp = [NoTermOp EXCEPT !.pc = "load"]      \* useEffect: loadTerms()

\* the ids a session may hold in its list
ListedIds == 1..(nextTermId - 1)

\* a write of a single row has been applied: the ids that were used, and
\* whether the write met unique_term_pair
Written(conflict) ==
    /\ nextTermId' = nextTermId + Cardinality(terminology') - Cardinality(terminology)
    /\ termOp' = [termOp EXCEPT !.conflict = conflict]
    /\ UNCHANGED <<activeTab, rulesVars>>
    /\ UNCHANGED <<chunks, dispatchVars, chunkerVars, formatVars, translateVars>>

\* loadTerms (lines 43-59) of the session, on mount and after an import
loadTerms ==
    /\ activeTab = "terminology"
    /\ termOp.pc = "load"
    /\ termOp' = [NoTermOp EXCEPT !.conflict = termOp.conflict]
    /\ UNCHANGED <<activeTab, rulesVars, terminology, nextTermId>>
    /\ UNCHANGED <<chunks, dispatchVars, chunkerVars, formatVars, translateVars>>

\* Save with no editingId (lines 386-392)
SaveNew(word) ==
    /\ activeTab = "terminology"
    /\ nextTermId <= MaxTerms
    /\ terminology' = InsertRow(terminology, FormData(word), nextTermId)
    /\ Written(Conflicts(terminology, FormData(word), 0))

\* Update with editingId = id (lines 386-391, 457-461): formData is the row
\* as listed, its term typed anew
SaveEdit(id, word) ==
    /\ activeTab = "terminology"
    /\ id \in ListedIds
    /\ LET formData(x) == [x EXCEPT !.term = word]
       IN  IF \E x \in terminology : x.id = id
           THEN LET t == CHOOSE x \in terminology : x.id = id
                IN  /\ terminology' = UpdateRow(terminology, formData(t), id)
                    /\ Written(Conflicts(terminology, formData(t), id))
           ELSE /\ terminology' = terminology
                /\ Written(FALSE)

\* the delete button (lines 466-473)
DeleteTerm(id) ==
    /\ activeTab = "terminology"
    /\ id \in ListedIds
    /\ terminology' = {x \in terminology : x.id # id}
    /\ Written(FALSE)

\* an upsert of autoExtractAndSaveTerms (TranslatorInterface.tsx, lines 184-190)
AutoLearn(word) ==
    /\ activeTab = "terminology"
    /\ nextTermId <= MaxTerms
    /\ terminology' = Upsert(terminology, AutoTerm(word), nextTermId)
    /\ Written(Conflicts(terminology, AutoTerm(word), 0))

\* handleTMXImport, lines 98-105: a file is chosen, processTMXFile reads it
TmxChosen(file) ==
    /\ activeTab = "terminology"
    /\ termOp.pc = "idle"
    /\ termOp' = [termOp EXCEPT !.pc = "read", !.file = file]
    /\ UNCHANGED <<activeTab, rulesVars, terminology, nextTermId>>
    /\ UNCHANGED <<chunks, dispatchVars, chunkerVars, formatVars, translateVars>>

\* what follows a batch, or the parse when there is no entry (lines 111, 137-138)
AfterBatch(entries, i) == IF i < Len(entries) THEN "batch" ELSE "load"

\* reader.onload (tmxParser.ts, lines 77-85): parseTMXFile throws and the
\* catch of handleTMXImport alerts (lines 139-141), or the entries are there
TmxOnload ==
    /\ activeTab = "terminology"
    /\ termOp.pc = "read"
    /\ termOp' = IF ParseThrows(termOp.file)
                 THEN [termOp EXCEPT !.pc = "alert: TMX import failed"]
                 ELSE LET entries == TmxEntries(termOp.file.tus, 1)
                      IN  [termOp EXCEPT !.pc = AfterBatch(entries, 0),
                                         !.entries = entries, !.i = 0]
    /\ UNCHANGED <<activeTab, rulesVars, terminology, nextTermId>>
    /\ UNCHANGED <<chunks, dispatchVars, chunkerVars, formatVars, translateVars>>

\* one turn of the loop of lines 111-135: the batch is upserted or refused whole
TmxBatch ==
    /\ activeTab = "terminology"
    /\ termOp.pc = "batch"
    /\ LET last == IF termOp.i + BATCH < Len(termOp.entries) THEN termOp.i + BATCH
                   ELSE Len(termOp.entries)
           batch == SubSeq(termOp.entries, termOp.i + 1, last)
       IN  /\ nextTermId + Len(batch) <= MaxTerms + 1
           /\ \E error \in BOOLEAN :
                 terminology' = IF error THEN terminology
                                ELSE InsertIgnore(terminology, batch, 1, nextTermId)
           /\ nextTermId' = nextTermId + Cardinality(terminology') - Cardinality(terminology)
           /\ termOp' = [termOp EXCEPT
                            !.pc = AfterBatch(termOp.entries, termOp.i + BATCH),
                            !.i = termOp.i + BATCH,
                            !.conflict = \E k \in 1..Len(batch) :
                                            Conflicts(terminology, TmxRow(batch[k]), 0)]
    /\ UNCHANGED <<activeTab, rulesVars>>
    /\ UNCHANGED <<chunks, dispatchVars, chunkerVars, formatVars, translateVars>>

\* the alert of line 141 is closed; finally (lines 142-145)
TmxAlertDismissed ==
    /\ activeTab = "terminology"
    /\ termOp.pc = "alert: TMX import failed"
    /\ termOp' = [NoTermOp EXCEPT !.conflict = termOp.conflict]
    /\ UNCHANGED <<activeTab, rulesVars, terminology, nextTermId>>
    /\ UNCHANGED <<chunks, dispatchVars, chunkerVars, formatVars, translateVars>>

TermsNext ==
    \/ loadTerms
    \/ \E word \in TermWords : SaveNew(word)
    \/ \E id \in 1..MaxTerms, word \in TermWords : SaveEdit(id, word)
    \/ \E id \in 1..MaxTerms : DeleteTerm(id)
    \/ \E word \in TermWords : AutoLearn(word)
    \/ \E file \in TmxFiles : TmxChosen(file)
    \/ TmxOnload
    \/ TmxBatch
    \/ TmxAlertDismissed

StoresInit ==
    /\ \/ RulesInit /\ TermsIdle
       \/ TermsInit /\ RulesIdle
    /\ TranslateIdle
    /\ chunks = <<>>
    /\ DispatchIdle
    /\ ChunkerIdle
    /\ FormatIdle

StoresNext == RulesNext \/ TermsNext

SpecStores == StoresInit /\ [][StoresNext]_vars

\* C13: in every reachable state of the formatting-rule store exactly one
\* rule set has is_default = true, between the two writes of handleSetDefault
\* and under the interleavings of two concurrent calls included.
C13_ExactlyOneDefault ==
    activeTab = "formatting" => Cardinality(Defaults(formattingRules)) = 1

C18_UniqueTermPair ==
    \A x, y \in terminology : SameKey(x, y) => x = y

\* a write has met unique_term_pair, and terminology holds one row of each
\* of the two keys
C18_Witness ==
    /\ termOp.conflict
    /\ Cardinality(terminology) = 2
    /\ \A word \in TermWords : \E x \in terminology : x.term = word

HasPlaceholder == \E i \in Idx : Occurs(Placeholder(i, Chunk(i)), output)

\* no request has been sent to the provider
NoProviderRequest == single.requests = 0 /\ \A i \in Idx : requests[i] = 0

\* C15: translation_memory holds one row, the pair of the job, once
\* handleTranslate has got a translation that holds no failure placeholder
\* of a chunk, and holds no row in every other case: before the translation
\* has arrived, after translateWithGemini has rejected, and after an output
\* that holds a failure placeholder.
C15_MemoryOnlyForSuccess ==
    Len(translationMemory) =
        IF hPc \in {"extract", "upserting", "done"} /\ ~HasPlaceholder THEN 1 ELSE 0

\* C16: a call of translateWithGemini with an empty key is rejected and sends
\* no request to the provider; handleTranslate with a blank source text or
\* with no key returns without a request to the provider, without a row in
\* translation_memory and without a row in terminology; handleTranslate
\* goes on to translateWithGemini only with a text that is not blank and a key.
C16_PreconditionsAbort ==
    /\ (apiKey = <<>> /\ hPc = "direct") =>
          /\ NoProviderRequest
          /\ single.pc \in {"idle", "rejected"}
          /\ jobPc = "start"
    /\ hPc \in {"alert: Enter source text", "showSettings"} =>
          /\ trim(sourceText) = <<>> \/ apiKey = <<>>
          /\ NoProviderRequest
          /\ single.pc = "idle" /\ jobPc = "start"
          /\ ~isTranslating
          /\ translationMemory = <<>> /\ terminology = {}
    /\ hPc \in {"awaitTranslate", "extract", "upserting", "done", "alert: Error"} =>
          trim(sourceText) # <<>> /\ apiKey # <<>>

\* translateWithGemini has been called with an empty key and has rejected
C16_Witness ==
    /\ apiKey = <<>> /\ hPc = "direct" /\ single.pc = "rejected"
    /\ NoProviderRequest


(***************************************************************************)
(* autoExtractAndSaveTerms on its own: handleTranslate has reached line    *)
(* 131 with a source text and a translation of one to MaxSentences         *)
(* sentences each, joined by ". ".                                         *)
(***************************************************************************)
MaxSentences == 3

\* two sentences of more than 10 characters and one of less
SentenceVocabulary ==
    { <<"g", "r", "e", "e", "n", " ", "a", "p", "p", "l", "e", "s">>,
      <<"o", "l", "d", " ", "p", "e", "a", "r", "s", " ", "f", "a", "l", "l">>,
      <<"g", "o", " ", "o", "n">> }

SentenceLists == UNION {[1..n -> SentenceVocabulary] : n \in 1..MaxSentences}

ExtractTexts == {join(l, <<".", " ">>) : l \in SentenceLists}

ExtractInit ==
    /\ sourceText \in ExtractTexts
    /\ translatedText \in ExtractTexts
    /\ hPc = "extract"
    /\ isTranslating = TRUE
    /\ apiKey = <<"k">> /\ long = FALSE /\ single = NoSingle
    /\ translationMemory = <<>> /\ newTerms = <<>> /\ phrases = <<>>
    /\ StoreIdle
    /\ chunks = <<>> /\ DispatchIdle /\ ChunkerIdle /\ FormatIdle

ExtractNext == autoExtractAndSaveTerms \/ UpsertTerm

SpecExtract == ExtractInit /\ [][ExtractNext]_vars

\* the sentences of a text: its segments ended by ".", "!" or "?" followed
\* by whitespace, and its last segment
Sentences(t) ==
    SelectSeq(MapTrim(SplitSentenceEnds(t, <<>>)), LAMBDA x : x # <<>>)

\* C17: when the source text and the translated text do not have the same
\* number of sentences, autoExtractAndSaveTerms builds no term and upserts
\* no row into terminology.
C17_GateOnSentenceCount ==
    (/\ hPc \in {"upserting", "done"}
     /\ Len(Sentences(sourceText)) # Len(Sentences(translatedText)))
    => newTerms = <<>> /\ terminology = {}


(***************************************************************************)
(* formatToTradosHTML: the numbers of <style> (part_002, lines 175-306).   *)
(* Lengths are in hundredths of a centimetre or of a point: 2.54 is 254.   *)
(***************************************************************************)
MaxUnits == 2

\* the values a numeric rule takes: 0, 1, ... MaxUnits (centimetres or points)
RuleValues == {100 * k : k \in 0..MaxUnits}

\* the rule sets: the numbers vary, the three switches of the cleaner are off
NumericRules ==
    [removeOptionalHyphens : {FALSE}, removeMultipleSpaces : {FALSE},
     useTabsAfterManualNumbers : {FALSE},
     margins : [top : RuleValues, right : RuleValues, bottom : RuleValues,
                left : RuleValues, gutter : RuleValues],
     paragraph : [indentLeft : RuleValues, hangingIndent : RuleValues,
                  spacingBefore : RuleValues, spacingAfter : RuleValues]]

\* v || d on numbers: d when v is 0
OrDefault(v, d) == IF v = 0 THEN d ELSE v

\* lines 175-184 and 196-306: what is written for @page, p and the classes
TradosStyle(r) ==
    LET indentLeft    == OrDefault(r.paragraph.indentLeft, 100)
        hanging       == OrDefault(r.paragraph.hangingIndent, 100)
        spacingBefore == OrDefault(r.paragraph.spacingBefore, 600)
        spacingAfter  == OrDefault(r.paragraph.spacingAfter, 600)
    IN  [pageMargin |-> [top    |-> OrDefault(r.margins.top, 254),
                         right  |-> OrDefault(r.margins.right, 317),
                         bottom |-> OrDefault(r.margins.bottom, 254),
                         left   |-> OrDefault(r.margins.left, 317)],
         gutter |-> OrDefault(r.margins.gutter, 0),
         pMargin |-> [top |-> spacingBefore, bottom |-> spacingAfter],
         \* p.article-point, p.preamble-point, p.normal
         marginLeft |-> indentLeft,
         textIndent |-> 0 - hanging,
         paddingLeft |-> hanging,
         letterMarginLeft |-> indentLeft + 50,
         bulletMarginLeft |-> indentLeft + 100]

StyleInit ==
    /\ rules \in NumericRules
    /\ raw = EndToEndInput
    /\ fmtPc = "called"
    /\ paragraphs = <<>>
    /\ cleanOnce = <<>>
    /\ cleanTwice = <<>>
    /\ css = <<>>
    /\ chunks = <<>>
    /\ DispatchIdle
    /\ ChunkerIdle
    /\ StoreIdle
    /\ TranslateIdle

\* formatToTradosHTML(raw, rules) returns
StyleReturns ==
    /\ fmtPc = "called"
    /\ css' = TradosStyle(rules)
    /\ paragraphs' = formatToTradosHTML(raw, rules)
    /\ fmtPc' = "html"
    /\ UNCHANGED <<raw, rules, cleanOnce, cleanTwice, chunks, dispatchVars, chunkerVars,
                   storeVars, translateVars>>

SpecStyle == StyleInit /\ [][StyleReturns]_vars

\* C20: the page margins, the paragraph spacing before and after, the left
\* indent and the hanging indent that formatToTradosHTML writes are the
\* values of the rule set, a value of 0 included.
C20_NumbersMapDirectly ==
    fmtPc = "html" =>
        /\ css.pageMargin.top = rules.margins.top
        /\ css.pageMargin.right = rules.margins.right
        /\ css.pageMargin.bottom = rules.margins.bottom
        /\ css.pageMargin.left = rules.margins.left
        /\ css.pMargin.top = rules.paragraph.spacingBefore
        /\ css.pMargin.bottom = rules.paragraph.spacingAfter
        /\ css.marginLeft = rules.paragraph.indentLeft
        /\ css.paddingLeft = rules.paragraph.hangingIndent
        /\ css.textIndent = 0 - rules.paragraph.hangingIndent


(***************************************************************************)
(* Claims on the dispatch of the chunked job, checked under Spec           *)
(***************************************************************************)
\* C21: the chunks that have been started are the chunks 0 .. loopI - 1, and
\* the step in which a chunk finishes while a chunk is left to start is the
\* step in which chunk loopI is started, whatever the other chunks in
\* flight are doing.
C21_WorkerPool ==
    [][/\ \A i \in Idx : worker'[i].pc = "idle" <=> i >= loopI'
       /\ \A i \in Idx :
             (worker[i].pc # "done" /\ worker'[i].pc = "done" /\ loopI < N) =>
                /\ loopI' = loopI + 1
                /\ worker[loopI].pc = "idle"
                /\ worker'[loopI].pc = "fetch"]_vars

\* chunk 0 has finished and chunk 3 has been started while chunks 1 and 2
\* are at their first request
C21_Witness ==
    /\ N >= 4
    /\ worker[0].pc = "done"
    /\ worker[1] = FirstFetch /\ worker[2] = FirstFetch
    /\ worker[3] = FirstFetch



\* C26: whenever the chunked job is suspended, activeWorkers is the number
\* of promises in chunkPromises and these are the promises of the chunks
\* that have been started and have not finished; a wait for a free slot
\* races exactly these promises, of which there is at least one, and the
\* final wait covers all of them.
C26_PoolBookkeeping ==
    jobPc \in {"race", "all", "resolved"} =>
        /\ activeWorkers = Len(chunkPromises)
        /\ Range(chunkPromises) = InFlight
        /\ \A j, k \in 1..Len(chunkPromises) : j # k => chunkPromises[j] # chunkPromises[k]
        /\ jobPc = "race" => awaited # {} /\ awaited = InFlight
        /\ jobPc = "all" => InFlight \subseteq awaited

\* the dispatch loop waits for a free slot while the three chunks in flight
\* are at different points, one of them between two attempts
C26_Witness ==
    /\ jobPc = "race"
    /\ activeWorkers = MAX_CONCURRENCY
    /\ awaited = {0, 1, 2}
    /\ worker[1].pc = "chunkBackoff"
    /\ worker[2].pc = "fetchBackoff"

(***************************************************************************)
(* Further claims on the formatting-rule store, checked under SpecStores   *)
(***************************************************************************)
\* C22: once two calls of handleSetDefault for different rules have both
\* applied their two writes, exactly one rule set has is_default = true.
C22_OneDefaultAfterBoth ==
    (/\ DOMAIN ruleOp = Clients
     /\ \A c \in Clients : ruleOp[c].kind = "setDefault" /\ ruleOp[c].pc = "load"
     /\ \A c, d \in Clients : c # d => ruleOp[c].id # ruleOp[d].id)
    => Cardinality(Defaults(formattingRules)) = 1


(***************************************************************************)
(* Further claims on the terminology store, checked under SpecStores       *)
(***************************************************************************)
\* C23: an upsert of autoExtractAndSaveTerms whose key is held by a row of
\* terminology leaves terminology as it is: the row keeps its definition
\* and its category.
C23_AutoLearnKeepsRow ==
    [][\A word \in TermWords :
          (AutoLearn(word) /\ Conflicts(terminology, AutoTerm(word), 0)) =>
             terminology' = terminology]_vars


(***************************************************************************)
(* Termination of translateWithGemini.  Every fetch comes back, every      *)
(* timer fires and every continuation runs: the steps of a call that has   *)
(* been made are taken as long as one of them can be.  The jobs have at    *)
(* most MaxLiveChunks chunks.                                              *)
(***************************************************************************)
MaxLiveChunks == 2

LiveInit == Init /\ Len(chunks) <= MaxLiveChunks

\* the steps of translateWithGemini and of what it calls
CallStep ==
    \/ RejectNoKey
    \/ SingleStart
    \/ SingleFetchReturns
    \/ SingleBackoffDone
    \/ StartJob
    \/ \E i \in Idx : FetchReturns(i)
    \/ \E i \in Idx : FetchBackoffDone(i)
    \/ \E i \in Idx : ChunkBackoffDone(i)

SpecLive == LiveInit /\ [][Next]_vars /\ WF_vars(CallStep)

\* translateWithGemini has resolved or rejected
Returned == jobPc \in {"resolved", "rejected"} \/ single.pc \in {"resolved", "rejected"}

MaxTokens == 3

\* two words that pass the test of lines 205-211; a stop word, a stop word
\* in upper case, a number and a word in brackets
WordVocabulary ==
    { <<"r", "e", "d">>, <<"a", "p", "p", "l", "e", "s">>, <<"o", "f">>,
      <<"T", "H", "E">>, <<"1", "2", "3">>, <<"(", "r", "e", "d", ")">> }

PhraseSentences ==
    {join(l, <<" ">>) : l \in UNION {[1..n -> WordVocabulary] : n \in 1..MaxTokens}}

PhrasesInit ==
    /\ sourceText \in PhraseSentences
    /\ hPc = "sentence"
    /\ phrases = <<>>
    /\ translatedText = <<>> /\ isTranslating = FALSE
    /\ apiKey = <<>> /\ long = FALSE /\ single = NoSingle
    /\ translationMemory = <<>> /\ newTerms = <<>>
    /\ StoreIdle
    /\ chunks = <<>> /\ DispatchIdle /\ ChunkerIdle /\ FormatIdle

\* extractNounPhrases(sourceText) returns
PhrasesReturn ==
    /\ hPc = "sentence"
    /\ phrases' = extractNounPhrases(sourceText)
    /\ hPc' = "phrases"
    /\ UNCHANGED <<apiKey, sourceText, long, single, isTranslating, translatedText,
                   translationMemory, newTerms>>
    /\ UNCHANGED <<chunks, dispatchVars, chunkerVars, formatVars, storeVars>>

SpecPhrases == PhrasesInit /\ [][PhrasesReturn]_vars

\* C25: every phrase of two words that extractNounPhrases returns is made of
\* two words that both pass the test (more than 2 characters, a letter, no
\* stop word), and no phrase is returned twice.
C25_MergesQualifyingOnly ==
    hPc = "phrases" =>
        /\ \A k \in 1..Len(phrases) :
              LET words == SplitSpaces(phrases[k], <<>>)
              IN  Len(words) = 2 => Qualifies(words[1]) /\ Qualifies(words[2])
        /\ \A j, k \in 1..Len(phrases) : j # k => phrases[j] # phrases[k]


(***************************************************************************)
(* Export and import of rule sets (FormattingRulesManager.tsx, lines 47-60 *)
(* and 63-100).  The clients load, select, export and import; no row is    *)
(* changed or removed, so the row a client has selected is the stored row  *)
(* of that id.  A JSON value is named by its text.                         *)
(***************************************************************************)
\* JSON.stringify(selectedRule, null, 2)   (line 50)
Stringify(row) ==
    "{id:" \o ToString(row.id) \o ",is_default:" \o ToString(row.is_default)
           \o ",rules_json:" \o row.rules_json \o "}"

\* the file of lines 50-58
ExportFile(row) == [parses |-> TRUE, json |-> Stringify(row)]

\* onClick={() => setSelectedRule(rule)}   (line 136)
SelectRule(c, id) ==
    /\ activeTab = "formatting"
    /\ id \in RuleIdsOf(uiRules[c])
    /\ selectedRule[c] # id
    /\ selectedRule' = [selectedRule EXCEPT ![c] = id]
    /\ UNCHANGED <<activeTab, formattingRules, nextRuleId, uiRules, ruleOp, downloads>>
    /\ UNCHANGED <<chunks, dispatchVars, chunkerVars, formatVars, termVars, translateVars>>

\* handleExport (lines 47-60)
handleExport(c) ==
    /\ activeTab = "formatting"
    /\ selectedRule[c] # NoRule
    /\ LET row == CHOOSE r \in formattingRules : r.id = selectedRule[c]
       IN  downloads' = downloads \cup {ExportFile(row)}
    /\ UNCHANGED <<activeTab, formattingRules, nextRuleId, uiRules, selectedRule, ruleOp>>
    /\ UNCHANGED <<chunks, dispatchVars, chunkerVars, formatVars, termVars, translateVars>>

RoundTripInit ==
    /\ RulesInit /\ TermsIdle /\ TranslateIdle
    /\ chunks = <<>> /\ DispatchIdle /\ ChunkerIdle /\ FormatIdle

RoundTripNext ==
    \E c \in Clients :
        \/ loadRules(c)
        \/ \E id \in 1..MaxRules : SelectRule(c, id)
        \/ handleExport(c)
        \/ \E f \in RuleFiles \cup downloads : ImportRead(c, f)
        \/ ImportOnload(c)
        \/ ImportInsert(c)
        \/ AlertDismissed(c)

SpecRoundTrip == RoundTripInit /\ [][RoundTripNext]_vars

\* C27: export followed by import is a round trip: when the insert of
\* handleImport stores a rule set read from the file handleExport wrote for a
\* rule set R, the rules_json of the new row equals the rules_json of R.
C27_ExportImportRoundTrip ==
    [][\A c \in Clients : \A R \in formattingRules :
          (/\ ruleOp[c].kind = "import" /\ ruleOp[c].pc = "insert"
           /\ ruleOp[c].file = ExportFile(R)
           /\ formattingRules' # formattingRules)
          => \A r \in formattingRules' \ formattingRules : r.rules_json = R.rules_json]_vars


\* C28: the default rule set is never deleted through the manager: in every
\* interleaving of the clients' actions, a row that a step removes from the
\* store has a stored is_default of FALSE.
C28_DefaultNeverDeleted ==
    [][\A r \in formattingRules :
          r.id \notin RuleIdsOf(formattingRules') => ~r.is_default]_vars


(***************************************************************************)
(* The un-chunked call of handleTranslate that fails                       *)
(***************************************************************************)
\* C29: for a text of at most 5500 characters and a key that is present,
\* translateWithGemini resolves only with a text of the provider and rejects
\* only when FetchAttempts requests have failed; once it has rejected,
\* translation memory and terminology hold nothing, the displayed
\* translation is what it was, and when handleTranslate has returned
\* isTranslating is FALSE.
C29_FailureLeavesState ==
    (~long /\ apiKey # <<>> /\ hPc \in {"awaitTranslate", "direct", "alert: Error"}) =>
        /\ single.pc = "resolved" => single.result # <<>>
        /\ single.pc = "rejected" =>
              /\ single.requests = FetchAttempts
              /\ translationMemory = <<>>
              /\ terminology = {}
              /\ translatedText = <<>>
        /\ hPc = "alert: Error" => single.pc = "rejected" /\ ~isTranslating

C29_Witness ==
    /\ ~long /\ apiKey # <<>> /\ trim(sourceText) # <<>>
    /\ hPc = "alert: Error"
    /\ single.pc = "rejected" /\ single.requests = FetchAttempts
    /\ ~isTranslating /\ translationMemory = <<>>


(***************************************************************************)
(* longTranslation.ts: the sequential translateLongDocument and its own    *)
(* splitTextIntoChunks.  translateWithGemini is seen from the loop: it     *)
(* resolves with a translation or it rejects.                              *)
(***************************************************************************)
\* text.split(/\n{2,}/)   (line 53); cur is the piece being read
RECURSIVE SplitOnBlankLines(_, _)
SplitOnBlankLines(s, cur) ==
    IF s = <<>> THEN <<cur>>
    ELSE IF Len(s) >= 2 /\ s[1] = "\n" /\ s[2] = "\n"
    THEN <<cur>> \o SplitOnBlankLines(DropNewlines(s), <<>>)
    ELSE SplitOnBlankLines(Tail(s), Append(cur, Head(s)))

\* the loop of lines 57-64 and the push of line 66
RECURSIVE PackParagraphs(_, _, _, _)
PackParagraphs(ps, current, out, limit) ==
    IF ps = <<>>
    THEN IF trim(current) # <<>> THEN Append(out, trim(current)) ELSE out
    ELSE LET p == Head(ps)
         IN  IF Len(current) + 2 + Len(p) > limit
             THEN PackParagraphs(Tail(ps), p, Append(out, trim(current)), limit)
             ELSE PackParagraphs(Tail(ps),
                                 current \o (IF current # <<>> THEN <<"\n", "\n">> ELSE <<>>) \o p,
                                 out, limit)

\* splitTextIntoChunks of longTranslation.ts (lines 52-68)
LongSplitTextIntoChunks(t, limit) == PackParagraphs(SplitOnBlankLines(t, <<>>), <<>>, <<>>, limit)

LongTexts == UNION {[1..n -> {"a", " ", "\n"}] : n \in 0..MaxTextLen}

LongInit ==
    /\ text \in LongTexts
    /\ maxChars \in 1..MaxLimit
    /\ splitPc = "called"
    /\ chunks = <<>>
    /\ DispatchIdle
    /\ FormatIdle
    /\ StoreIdle
    /\ TranslateIdle

\* line 16: splitTextIntoChunks returns
LongSplitReturns ==
    /\ splitPc = "called"
    /\ chunks' = LongSplitTextIntoChunks(text, maxChars)
    /\ splitPc' = "returned"
    /\ UNCHANGED <<text, maxChars, dispatchVars, formatVars, storeVars, translateVars>>

\* one turn of the loop of lines 21-41: chunks[i] is sent, and its
\* translation or its placeholder is pushed
LongTranslateChunk ==
    /\ splitPc = "returned"
    /\ loopI < Len(chunks)
    /\ \E r \in {ProviderTranslation(Chunk(loopI)), Placeholder(loopI, Chunk(loopI))} :
          results' = Append(results, r)
    /\ loopI' = loopI + 1
    /\ UNCHANGED <<chunks, chunkPromises, activeWorkers, jobPc, awaited, worker, requests, writes,
                   output, outOfOrder>>
    /\ UNCHANGED <<chunkerVars, formatVars, storeVars, translateVars>>

LongNext == LongSplitReturns \/ LongTranslateChunk

SpecLong == LongInit /\ [][LongNext]_vars

\* C30: for every text and every maxChars, every chunk splitTextIntoChunks
\* of longTranslation.ts returns is non-empty and no longer than maxChars.
C30_LongChunksBounded ==
    splitPc = "returned" =>
        \A k \in 1..Len(chunks) : chunks[k] # <<>> /\ Len(chunks[k]) <= maxChars

====
